---- MODULE Spec2Model ----
(***************************************************************************)
(* Model of the session-manifest core: SessionStateManager (load, save,   *)
(* phase transitions, checkpoint tracking) over a two-file filesystem      *)
(* (state.json and its temp file).                                         *)
(***************************************************************************)
EXTENDS Integers, Sequences, FiniteSets, TLC

\* ─── Bounds ──────────────────────────────────────────────────────────────
\* Largest checkpoints_total / checkpoint_id a caller passes.
MaxTotal == 2
\* Last value of the wall clock read by datetime.now().
MaxClock == 1
\* Number of process deaths and I/O failures injected in one behaviour.
MaxFaults == 1
\* Longest commits list recorded in one behaviour.
MaxCommits == 2
\* Number of coroutines handed to submit() in one behaviour.
MaxTasks == 3
\* Number of reset() calls in one behaviour.
MaxResets == 1
\* Number of entries of agents/sessions/ in one project.
MaxDirs == 2
\* Number of reconciliation tasks started in one behaviour.
MaxSyncs == 2

\* ─── Optional values ─────────────────────────────────────────────────────
None == <<>>
Some(x) == <<x>>

\* ─── models.py ───────────────────────────────────────────────────────────
Phase == {"spec", "plan", "build", "docs", "complete"}

HistFields ==
  {"spec_started_at", "spec_completed_at", "plan_started_at", "plan_completed_at",
   "build_started_at", "build_completed_at", "docs_started_at", "docs_completed_at"}

PhaseHistory == [f \in HistFields |-> None]

BuildProgress ==
  [checkpoints_total |-> None, checkpoints_completed |-> <<>>, current_checkpoint |-> None]

GitContext == [branch |-> None, worktree |-> None, base_branch |-> None]

Commit(sha, message, checkpoint, created_at) ==
  [sha |-> sha, message |-> message, checkpoint |-> checkpoint, created_at |-> created_at]

Artifacts == [spec |-> "spec.md", plan |-> "plan.json", plan_readable |-> "plan.md"]

\* Status(str, Enum): a member compares equal to its value, so a member and the
\* string read back from JSON are one value here.
Status == {"active", "paused", "complete", "failed"}

\* The manifest written by the test fixture: phase spec, only spec_started_at set.
sample_state ==
  [session_id |-> "2026-01-01_test-session",
   topic |-> "Test Session",
   session_type |-> "full",
   created_at |-> 0,
   updated_at |-> 0,
   current_phase |-> "spec",
   status |-> "active",
   phase_history |-> [PhaseHistory EXCEPT !["spec_started_at"] = Some(0)],
   build_progress |-> BuildProgress,
   git |-> GitContext,
   commits |-> <<>>,
   artifacts |-> Artifacts]

\* ─── JSON (de)serialisation ──────────────────────────────────────────────
\* datetime -> ISO-8601 string and back; None <-> null.
isoformat(t) == <<"iso", t>>
\* Variant: the parsed instant loses its time of day.
fromisoformat_date_only(j) == 0
fromisoformat(j) == j[2]
dump_optional_datetime(o) == IF o = None THEN None ELSE isoformat(o[1])
validate_optional_datetime(j) == IF j = None THEN None ELSE Some(fromisoformat(j))

model_dump(s) ==
  [s EXCEPT
     !.created_at = isoformat(s.created_at),
     !.updated_at = isoformat(s.updated_at),
     !.phase_history = [f \in HistFields |-> dump_optional_datetime(s.phase_history[f])],
     !.commits = [i \in DOMAIN s.commits |->
                    [s.commits[i] EXCEPT !.created_at = isoformat(s.commits[i].created_at)]]]

model_validate(d) ==
  [d EXCEPT
     !.created_at = fromisoformat(d.created_at),
     !.updated_at = fromisoformat(d.updated_at),
     !.phase_history = [f \in HistFields |-> validate_optional_datetime(d.phase_history[f])],
     !.commits = [i \in DOMAIN d.commits |->
                    [d.commits[i] EXCEPT !.created_at = fromisoformat(d.commits[i].created_at)]]]

\* ─── Filesystem ──────────────────────────────────────────────────────────
session_dir == "2026-01-01_test-session"
state_file == "state.json"
\* Variant: the state is written in place, without a temp file.
temp_file_in_place == "state.json"
temp_file == "state.json.tmp"
Paths == {"state.json", "state.json.tmp"}

Absent == [kind |-> "absent", doc |-> None]
\* Bytes that are not JSON.
Garbage == [kind |-> "garbage", doc |-> None]
\* Well-formed JSON that the SessionState schema rejects.
BadSchema == [kind |-> "badschema", doc |-> None]
\* A file opened for writing whose content is not (yet) completely written.
Truncated == [kind |-> "truncated", doc |-> None]
JsonFile(d) == [kind |-> "json", doc |-> d]

\* ─── Call results ────────────────────────────────────────────────────────
Result(k) == [kind |-> k, from_phase |-> "", to_phase |-> ""]
Ok == Result("ok")
Running == Result("running")
InvalidPhaseTransitionError(from, to) ==
  [kind |-> "InvalidPhaseTransitionError", from_phase |-> from, to_phase |-> to]
Call(name, phase, n) == [name |-> name, phase |-> phase, n |-> n]

VARIABLES
  fs,                \* Paths -> file content
  mem,               \* self._state: None or Some(SessionState)
  pc,                \* position of the manager inside save()
  op,                \* the last public call made on the manager
  result,            \* its outcome
  clock,             \* datetime.now(timezone.utc)
  on_save_callback,  \* whether a save callback is configured
  callback_log,      \* callback invocations made by the current save()
  faults,            \* number of faults injected so far
  shutting_down,     \* SyncTaskPool._shutting_down
  semaphore,         \* SyncTaskPool._semaphore: None or Some(asyncio.Semaphore)
  tasks,             \* SyncTaskPool._tasks: the tracked set
  task,              \* every coroutine handed to submit(), by submission order
  shutdown_pc,       \* position of the caller inside shutdown()
  pending,           \* shutdown(): the snapshot list(self._tasks)
  resets,            \* number of reset() calls made so far
  detached,          \* the semaphores reset() dropped, by the reset that dropped them
  disk,              \* agents/sessions/: every entry, with its manifest and artifact files
  db,                \* the committed rows of the sessions table
  sync,              \* every reconciliation task: its position and its database session
  uuids,             \* number of identities uuid4() has handed out
  peer               \* a second SessionStateManager over the same directory

\* A coroutine handed to submit(): where it is, whether a cancellation is
\* waiting to be thrown into it, whether it had to queue for the permit it
\* waits for or holds, whether any of its body has run, its result, and the
\* semaphore it is in (the number of resets before it entered).
TaskIds == 1..MaxTasks
NewTask ==
  [st |-> "new", must_cancel |-> FALSE, queued |-> FALSE, ran |-> FALSE, res |-> "", sem |-> 0]

\* A reconciliation task: the coroutine's position, the sync_one call it is in
\* (slug, parsed manifest, path taken, update DTO in hand, record returned,
\* whether the call has used the index store), the AsyncSession it works in
\* (rows flushed but not committed, whether a failed flush has invalidated its
\* transaction) and, for a batch, the listing left to visit and the summary.
SyncIds == 1..MaxSyncs
NewSync ==
  [pc |-> "new", kind |-> "", slug |-> 0, state |-> None, path |-> "", existing |-> None,
   data |-> None, ret |-> None, touched |-> FALSE, rows |-> {}, poisoned |-> FALSE,
   todo |-> <<>>, synced |-> <<>>, failed |-> <<>>, total |-> None, res |-> ""]

\* The second manager: self._state, its position (constructed, idle, inside
\* save(), returned) and the outcome of its mutation.
NewPeer == [mem |-> None, pc |-> "new", result |-> Ok]

manager_vars == <<fs, mem, pc, op, result, clock, on_save_callback, callback_log, faults>>
pool_vars == <<shutting_down, semaphore, tasks, task, shutdown_pc, pending, resets, detached>>
sync_vars == <<disk, db, sync, uuids>>
vars == <<manager_vars, pool_vars, sync_vars, peer>>

\* ─── SessionStateManager ─────────────────────────────────────────────────
\* Variant: docs may go back to build.
VALID_TRANSITIONS_back ==
  [p \in Phase |->
     CASE p = "spec" -> {"plan"}
       [] p = "plan" -> {"build"}
       [] p = "build" -> {"docs", "complete"}
       [] p = "docs" -> {"complete", "build"}
       [] p = "complete" -> {}]

VALID_TRANSITIONS ==
  [p \in Phase |->
     CASE p = "spec" -> {"plan"}
       [] p = "plan" -> {"build"}
       [] p = "build" -> {"docs", "complete"}
       [] p = "docs" -> {"complete"}
       [] p = "complete" -> {}]

\* Variant: a transition to the current phase is accepted.
validate_transition_self(from_phase, to_phase) ==
  to_phase \in VALID_TRANSITIONS[from_phase] \/ to_phase = from_phase
validate_transition(from_phase, to_phase) == to_phase \in VALID_TRANSITIONS[from_phase]

\* What load() does with the content f of state.json: the exception it
\* raises, or the state it installs.
load_file(f) ==
  CASE f.kind = "absent" -> [res |-> Result("SessionNotFoundError"), st |-> None]
    [] f.kind = "json" -> [res |-> Ok, st |-> Some(model_validate(f.doc))]
    [] f.kind = "badschema" -> [res |-> Result("StateValidationError"), st |-> None]
    [] OTHER -> [res |-> Result("JSONDecodeError"), st |-> None]

\* The `state` property: the loaded state, loading it first if necessary.
state == IF mem = None THEN load_file(fs[state_file]) ELSE [res |-> Ok, st |-> mem]

load ==
  /\ pc = "idle"
  /\ op' = Call("load", "", 0)
  /\ LET r == load_file(fs[state_file]) IN
       /\ result' = r.res
       /\ mem' = IF r.res.kind = "ok" THEN r.st ELSE mem
  /\ UNCHANGED <<fs, pc, clock, on_save_callback, pool_vars, sync_vars, peer, faults, callback_log>>

\* save(), entry: the RuntimeError guard.
save ==
  /\ pc = "idle"
  /\ op' = Call("save", "", 0)
  /\ IF mem = None
       THEN /\ result' = Result("RuntimeError")
            /\ UNCHANGED <<pc, callback_log>>
       ELSE /\ result' = Running
            /\ pc' = "save"
            /\ callback_log' = <<>>
  /\ UNCHANGED <<fs, mem, clock, on_save_callback, pool_vars, sync_vars, peer, faults>>

\* save(), step 1: refresh updated_at.
save_updated_at ==
  /\ pc = "save"
  /\ mem' = Some([mem[1] EXCEPT !.updated_at = clock])
  /\ pc' = "write"
  /\ UNCHANGED <<fs, op, result, clock, on_save_callback, pool_vars, sync_vars, peer, faults, callback_log>>

\* Variant: the temp file is renamed before its content is flushed.
save_write_unflushed ==
  /\ pc = "write"
  /\ fs' = [fs EXCEPT ![temp_file] = Truncated]
  /\ pc' = "rename"
  /\ UNCHANGED <<mem, op, result, clock, on_save_callback, pool_vars, sync_vars, peer, faults, callback_log>>

\* save(), step 2: serialise the state into the temp file.
save_write ==
  /\ pc = "write"
  /\ fs' = [fs EXCEPT ![temp_file] = JsonFile(model_dump(mem[1]))]
  /\ pc' = "rename"
  /\ UNCHANGED <<mem, op, result, clock, on_save_callback, pool_vars, sync_vars, peer, faults, callback_log>>

\* Variant: the rename is left out.
save_rename_skipped ==
  /\ pc = "rename"
  /\ IF on_save_callback
       THEN pc' = "callback" /\ UNCHANGED result
       ELSE pc' = "idle" /\ result' = Ok
  /\ UNCHANGED <<fs, mem, op, clock, on_save_callback, pool_vars, sync_vars, peer, faults, callback_log>>

\* save(), step 3: rename the temp file over state.json; Path.rename raises
\* FileNotFoundError when the temp file is no longer there.
save_rename ==
  /\ pc = "rename"
  /\ IF fs[temp_file].kind = "absent"
       THEN /\ pc' = "idle"
            /\ result' = Result("FileNotFoundError")
            /\ UNCHANGED fs
       ELSE /\ fs' = [fs EXCEPT ![state_file] = fs[temp_file], ![temp_file] = Absent]
            /\ IF on_save_callback
                 THEN pc' = "callback" /\ UNCHANGED result
                 ELSE pc' = "idle" /\ result' = Ok
  /\ UNCHANGED <<mem, op, clock, on_save_callback, pool_vars, sync_vars, peer, faults, callback_log>>

\* save(), step 4: invoke the configured callback with the session
\* directory; an exception it raises is caught and logged.
invoke_callback ==
  /\ pc = "callback"
  /\ \E raised \in BOOLEAN :
       callback_log' = Append(callback_log, [arg |-> session_dir, raised |-> raised])
  /\ pc' = "idle"
  /\ result' = Ok
  /\ UNCHANGED <<fs, mem, op, clock, on_save_callback, pool_vars, sync_vars, peer, faults>>

\* The part of a mutation after its in-memory assignments: it calls save().
call_save(s) ==
  /\ mem' = Some(s)
  /\ result' = Running
  /\ pc' = "save"
  /\ callback_log' = <<>>
  /\ UNCHANGED <<fs, clock, on_save_callback, pool_vars, sync_vars, peer, faults>>

\* A mutation that raises e after reading the `state` property (which may
\* have installed the loaded state).
raise_after_state(acc, e) ==
  /\ mem' = IF acc.res.kind = "ok" THEN acc.st ELSE mem
  /\ result' = e
  /\ UNCHANGED <<fs, pc, clock, on_save_callback, pool_vars, sync_vars, peer, faults, callback_log>>

\* Variant: the started_at field written is the one of the phase being left.
transition_to_phase_wrong_field(new_phase) ==
  /\ pc = "idle"
  /\ op' = Call("transition_to_phase", new_phase, 0)
  /\ LET acc == state IN
       IF acc.res.kind # "ok" THEN raise_after_state(acc, acc.res)
       ELSE LET s == acc.st[1]
                current_phase == s.current_phase
                now == clock
                completed_at_field == current_phase \o "_completed_at"
                started_at_field == current_phase \o "_started_at"
                h1 == [s.phase_history EXCEPT ![completed_at_field] = Some(now)]
                h2 == IF new_phase # "complete"
                        THEN [h1 EXCEPT ![started_at_field] = Some(now)]
                        ELSE h1
            IN IF ~validate_transition(current_phase, new_phase)
                 THEN raise_after_state(acc,
                        InvalidPhaseTransitionError(current_phase, new_phase))
                 ELSE call_save([s EXCEPT !.phase_history = h2,
                                          !.current_phase = new_phase])

transition_to_phase(new_phase) ==
  /\ pc = "idle"
  /\ op' = Call("transition_to_phase", new_phase, 0)
  /\ LET acc == state IN
       IF acc.res.kind # "ok" THEN raise_after_state(acc, acc.res)
       ELSE LET s == acc.st[1]
                current_phase == s.current_phase
                now == clock
                completed_at_field == current_phase \o "_completed_at"
                started_at_field == new_phase \o "_started_at"
                h1 == [s.phase_history EXCEPT ![completed_at_field] = Some(now)]
                h2 == IF new_phase # "complete"
                        THEN [h1 EXCEPT ![started_at_field] = Some(now)]
                        ELSE h1
            IN IF ~validate_transition(current_phase, new_phase)
                 THEN raise_after_state(acc,
                        InvalidPhaseTransitionError(current_phase, new_phase))
                 ELSE call_save([s EXCEPT !.phase_history = h2,
                                          !.current_phase = new_phase])

\* Variant: the list is left in insertion order.
sort_noop(l) == l

\* list.sort() on a list of integers.
RECURSIVE sort(_)
sort(l) ==
  IF l = <<>> THEN <<>>
  ELSE LET m == CHOOSE i \in DOMAIN l : \A j \in DOMAIN l : l[i] <= l[j]
           rest == [k \in 1..(Len(l) - 1) |-> IF k < m THEN l[k] ELSE l[k + 1]]
       IN <<l[m]>> \o sort(rest)

contains(l, x) == \E i \in DOMAIN l : l[i] = x

\* Variant: the completed list survives a re-initialisation.
init_build_progress_keep_completed(checkpoints_total) ==
  /\ pc = "idle"
  /\ op' = Call("init_build_progress", "", checkpoints_total)
  /\ IF checkpoints_total < 1
       THEN /\ result' = Result("ValueError")
            /\ UNCHANGED <<fs, mem, pc, clock, on_save_callback, pool_vars, sync_vars, peer, faults, callback_log>>
       ELSE LET acc == state IN
              IF acc.res.kind # "ok" THEN raise_after_state(acc, acc.res)
              ELSE call_save([acc.st[1] EXCEPT
                     !.build_progress.checkpoints_total = Some(checkpoints_total),
                     !.build_progress.current_checkpoint = Some(1)])

\* Variant: checkpoints_total is assigned before it is validated.
init_build_progress_assign_first(checkpoints_total) ==
  /\ pc = "idle"
  /\ op' = Call("init_build_progress", "", checkpoints_total)
  /\ LET acc == state IN
       IF acc.res.kind # "ok" THEN raise_after_state(acc, acc.res)
       ELSE LET s == [acc.st[1] EXCEPT
                        !.build_progress.checkpoints_total = Some(checkpoints_total)]
            IN IF checkpoints_total < 1
                 THEN raise_after_state([res |-> Ok, st |-> Some(s)], Result("ValueError"))
                 ELSE call_save([s EXCEPT
                        !.build_progress.checkpoints_completed = <<>>,
                        !.build_progress.current_checkpoint = Some(1)])

init_build_progress(checkpoints_total) ==
  /\ pc = "idle"
  /\ op' = Call("init_build_progress", "", checkpoints_total)
  /\ IF checkpoints_total < 1
       THEN /\ result' = Result("ValueError")
            /\ UNCHANGED <<fs, mem, pc, clock, on_save_callback, pool_vars, sync_vars, peer, faults, callback_log>>
       ELSE LET acc == state IN
              IF acc.res.kind # "ok" THEN raise_after_state(acc, acc.res)
              ELSE call_save([acc.st[1] EXCEPT
                     !.build_progress.checkpoints_total = Some(checkpoints_total),
                     !.build_progress.checkpoints_completed = <<>>,
                     !.build_progress.current_checkpoint = Some(1)])

\* Variant: the range check is zero-based.
start_checkpoint_zero_based(checkpoint_id) ==
  /\ pc = "idle"
  /\ op' = Call("start_checkpoint", "", checkpoint_id)
  /\ LET acc == state IN
       IF acc.res.kind # "ok" THEN raise_after_state(acc, acc.res)
       ELSE LET s == acc.st[1]
                total == s.build_progress.checkpoints_total
            IN IF total = None
                 THEN raise_after_state(acc, Result("ValueError"))
               ELSE IF checkpoint_id < 0 \/ checkpoint_id > total[1]
                 THEN raise_after_state(acc, Result("ValueError"))
               ELSE call_save([s EXCEPT
                      !.build_progress.current_checkpoint = Some(checkpoint_id)])

start_checkpoint(checkpoint_id) ==
  /\ pc = "idle"
  /\ op' = Call("start_checkpoint", "", checkpoint_id)
  /\ LET acc == state IN
       IF acc.res.kind # "ok" THEN raise_after_state(acc, acc.res)
       ELSE LET s == acc.st[1]
                total == s.build_progress.checkpoints_total
            IN IF total = None
                 THEN raise_after_state(acc, Result("ValueError"))
               ELSE IF checkpoint_id < 1 \/ checkpoint_id > total[1]
                 THEN raise_after_state(acc, Result("ValueError"))
               ELSE call_save([s EXCEPT
                      !.build_progress.current_checkpoint = Some(checkpoint_id)])

\* Variant: current_checkpoint advances to the next checkpoint that is not
\* yet completed.
complete_checkpoint_next_open(checkpoint_id) ==
  /\ pc = "idle"
  /\ op' = Call("complete_checkpoint", "", checkpoint_id)
  /\ LET acc == state IN
       IF acc.res.kind # "ok" THEN raise_after_state(acc, acc.res)
       ELSE LET s == acc.st[1]
                total == s.build_progress.checkpoints_total
                completed == s.build_progress.checkpoints_completed
            IN IF total = None
                 THEN raise_after_state(acc, Result("ValueError"))
               ELSE IF checkpoint_id < 1 \/ checkpoint_id > total[1]
                 THEN raise_after_state(acc, Result("ValueError"))
               ELSE IF contains(completed, checkpoint_id)
                 THEN raise_after_state(acc, Result("ValueError"))
               ELSE LET open == {k \in (checkpoint_id + 1)..total[1] :
                                   ~contains(completed, k)}
                    IN call_save([s EXCEPT
                         !.build_progress.checkpoints_completed =
                            sort(Append(completed, checkpoint_id)),
                         !.build_progress.current_checkpoint =
                            IF open # {}
                              THEN Some(CHOOSE k \in open : \A j \in open : k <= j)
                              ELSE None])

complete_checkpoint(checkpoint_id) ==
  /\ pc = "idle"
  /\ op' = Call("complete_checkpoint", "", checkpoint_id)
  /\ LET acc == state IN
       IF acc.res.kind # "ok" THEN raise_after_state(acc, acc.res)
       ELSE LET s == acc.st[1]
                total == s.build_progress.checkpoints_total
                completed == s.build_progress.checkpoints_completed
            IN IF total = None
                 THEN raise_after_state(acc, Result("ValueError"))
               ELSE IF checkpoint_id < 1 \/ checkpoint_id > total[1]
                 THEN raise_after_state(acc, Result("ValueError"))
               ELSE IF contains(completed, checkpoint_id)
                 THEN raise_after_state(acc, Result("ValueError"))
               ELSE call_save([s EXCEPT
                      !.build_progress.checkpoints_completed =
                         sort(Append(completed, checkpoint_id)),
                      !.build_progress.current_checkpoint =
                         IF checkpoint_id < total[1]
                           THEN Some(checkpoint_id + 1)
                           ELSE None])

\* Variant: a commit whose sha is already recorded is not recorded again.
add_commit_dedup(sha, message, checkpoint) ==
  /\ pc = "idle"
  /\ op' = Call("add_commit", sha, 0)
  /\ LET acc == state IN
       IF acc.res.kind # "ok" THEN raise_after_state(acc, acc.res)
       ELSE LET s == acc.st[1] IN
              /\ Len(s.commits) < MaxCommits
              /\ call_save([s EXCEPT !.commits =
                    IF \E i \in DOMAIN s.commits : s.commits[i].sha = sha
                      THEN s.commits
                      ELSE Append(s.commits, Commit(sha, message, checkpoint, clock))])

add_commit(sha, message, checkpoint) ==
  /\ pc = "idle"
  /\ op' = Call("add_commit", sha, 0)
  /\ LET commit == Commit(sha, message, checkpoint, clock)
         acc == state
     IN IF acc.res.kind # "ok" THEN raise_after_state(acc, acc.res)
        ELSE LET s == acc.st[1] IN
               /\ Len(s.commits) < MaxCommits
               /\ call_save([s EXCEPT !.commits = Append(s.commits, commit)])

set_status(status) ==
  /\ pc = "idle"
  /\ op' = Call("set_status", status, 0)
  /\ LET acc == state IN
       IF acc.res.kind # "ok" THEN raise_after_state(acc, acc.res)
       ELSE call_save([acc.st[1] EXCEPT !.status = status])

\* Variant: a new branch drops the worktree recorded for the old one.
set_git_branch_drops_worktree(branch) ==
  /\ pc = "idle"
  /\ op' = Call("set_git_branch", branch, 0)
  /\ LET acc == state IN
       IF acc.res.kind # "ok" THEN raise_after_state(acc, acc.res)
       ELSE call_save([acc.st[1] EXCEPT !.git.branch = Some(branch), !.git.worktree = None])

set_git_branch(branch) ==
  /\ pc = "idle"
  /\ op' = Call("set_git_branch", branch, 0)
  /\ LET acc == state IN
       IF acc.res.kind # "ok" THEN raise_after_state(acc, acc.res)
       ELSE call_save([acc.st[1] EXCEPT !.git.branch = Some(branch)])

\* worktree is Optional[str]: a path, or None for "no worktree".
set_git_worktree(worktree) ==
  /\ pc = "idle"
  /\ op' = Call("set_git_worktree", IF worktree = None THEN "" ELSE worktree[1], 0)
  /\ LET acc == state IN
       IF acc.res.kind # "ok" THEN raise_after_state(acc, acc.res)
       ELSE call_save([acc.st[1] EXCEPT !.git.worktree = worktree])

\* Arguments callers pass: in range, below 1 and above the total.
TotalArgs == (-1)..MaxTotal
CheckpointArgs == 0..(MaxTotal + 1)

\* The wall clock advances.
tick ==
  /\ clock < MaxClock
  /\ clock' = clock + 1
  /\ UNCHANGED <<fs, mem, pc, op, result, on_save_callback, pool_vars, sync_vars, peer, faults, callback_log>>

InitCore ==
  /\ fs \in {[p \in Paths |-> IF p = state_file THEN f ELSE Absent] :
               f \in {Absent, Garbage, BadSchema, JsonFile(model_dump(sample_state))}}
  /\ mem = None
  /\ pc = "idle"
  /\ op = Call("__init__", "", 0)
  /\ result = Ok
  /\ clock = 0
  /\ on_save_callback \in BOOLEAN
  /\ callback_log = <<>>
  /\ faults = 0
  /\ shutting_down = FALSE
  /\ semaphore = None
  /\ tasks = {}
  /\ task = [t \in TaskIds |-> NewTask]
  /\ shutdown_pc = "idle"
  /\ pending = {}
  /\ resets = 0
  /\ detached = <<>>
  /\ peer = NewPeer

\* A project without an agents/sessions/ directory and an empty sessions table.
Init ==
  /\ InitCore
  /\ disk = <<>>
  /\ db = {}
  /\ sync = [t \in SyncIds |-> NewSync]
  /\ uuids = 0

Next ==
  \/ load
  \/ save
  \/ save_updated_at
  \/ save_write
  \/ save_rename
  \/ invoke_callback
  \/ \E p \in Phase : transition_to_phase(p)
  \/ \E n \in TotalArgs : init_build_progress(n)
  \/ \E c \in CheckpointArgs : start_checkpoint(c)
  \/ \E c \in CheckpointArgs : complete_checkpoint(c)
  \/ tick

Spec == Init /\ [][Next]_vars

\* The manager used for checkpoint tracking only.
NextBuild ==
  \/ load
  \/ save
  \/ save_updated_at
  \/ save_write
  \/ save_rename
  \/ invoke_callback
  \/ \E n \in TotalArgs : init_build_progress(n)
  \/ \E c \in CheckpointArgs : start_checkpoint(c)
  \/ \E c \in CheckpointArgs : complete_checkpoint(c)
  \/ tick

SpecBuild == Init /\ [][NextBuild]_vars

\* ─── Commits, status and git context ─────────────────────────────────────
\* Arguments callers pass: a commit tied to checkpoint 1 and one without a
\* checkpoint; either may be passed again.
CommitArgs == {<<"abc1234", Some(1)>>, <<"def5678", None>>}
StatusArgs == {"paused"}

NextMeta ==
  \/ load
  \/ save
  \/ save_updated_at
  \/ save_write
  \/ save_rename
  \/ \E p \in Phase : transition_to_phase(p)
  \/ \E a \in CommitArgs : add_commit(a[1], "Test commit", a[2])
  \/ \E st \in StatusArgs : set_status(st)
  \/ tick

\* A manager constructed without a save callback.
InitMeta == Init /\ ~on_save_callback

SpecMeta == InitMeta /\ [][NextMeta]_vars

\* Every mutation on one manager over the fixture's manifest, at one instant.
BranchArgs == {"feature/new-feature"}
WorktreeArgs == {None, Some("/path/to/worktree")}

NextFrame ==
  \/ save_updated_at
  \/ save_write
  \/ save_rename
  \/ \E p \in Phase : transition_to_phase(p)
  \/ \E n \in TotalArgs : init_build_progress(n)
  \/ \E c \in CheckpointArgs : start_checkpoint(c)
  \/ \E c \in CheckpointArgs : complete_checkpoint(c)
  \/ \E st \in StatusArgs : set_status(st)
  \/ \E b \in BranchArgs : set_git_branch(b)
  \/ \E w \in WorktreeArgs : set_git_worktree(w)

InitFrame == InitMeta /\ fs[state_file].kind = "json"

SpecFrame == InitFrame /\ [][NextFrame]_vars

\* ─── Two managers over one session directory ─────────────────────────────
\* The second manager runs the same code in another thread or process; its
\* steps are the first manager's, on its own _state.
peer_frame == <<manager_vars, pool_vars, sync_vars>>

\* load() on the second manager.
peer_load ==
  /\ peer.pc = "new"
  /\ LET r == load_file(fs[state_file]) IN
       peer' = IF r.res.kind = "ok"
                 THEN [peer EXCEPT !.mem = r.st, !.pc = "idle"]
                 ELSE [peer EXCEPT !.result = r.res, !.pc = "done"]
  /\ UNCHANGED peer_frame

\* set_status(status) on the second manager, up to save()'s open() of the
\* temp file: the field and updated_at are assigned.
peer_set_status(status) ==
  /\ peer.pc = "idle"
  /\ peer' = [peer EXCEPT !.mem = Some([@[1] EXCEPT !.status = status, !.updated_at = clock]),
                          !.pc = "write", !.result = Running]
  /\ UNCHANGED peer_frame

\* state_file.with_suffix(".json.tmp"): the same path in every manager.
peer_temp_file == temp_file

\* save() on the second manager, step 2: open(temp_file, "w") truncates the
\* file whoever created it, and the state is serialised into it.
peer_save_write ==
  /\ peer.pc = "write"
  /\ fs' = [fs EXCEPT ![peer_temp_file] = JsonFile(model_dump(peer.mem[1]))]
  /\ peer' = [peer EXCEPT !.pc = "rename"]
  /\ UNCHANGED <<mem, pc, op, result, clock, on_save_callback, callback_log, faults,
                 pool_vars, sync_vars>>

\* save() on the second manager, step 3: the rename.
peer_save_rename ==
  /\ peer.pc = "rename"
  /\ IF fs[peer_temp_file].kind = "absent"
       THEN /\ peer' = [peer EXCEPT !.pc = "done", !.result = Result("FileNotFoundError")]
            /\ UNCHANGED fs
       ELSE /\ fs' = [fs EXCEPT ![state_file] = fs[peer_temp_file], ![peer_temp_file] = Absent]
            /\ peer' = [peer EXCEPT !.pc = "done", !.result = Ok]
  /\ UNCHANGED <<mem, pc, op, result, clock, on_save_callback, callback_log, faults,
                 pool_vars, sync_vars>>

\* Both managers load the fixture's manifest and make one mutation each: the
\* first a transition to plan, the second a set_status.
NextTwo ==
  \/ mem = None /\ load
  \/ mem = Some(sample_state) /\ op.name = "load" /\ transition_to_phase("plan")
  \/ save_updated_at
  \/ save_write
  \/ save_rename
  \/ peer_load
  \/ peer.mem = Some(sample_state) /\ (\E st \in StatusArgs : peer_set_status(st))
  \/ peer_save_write
  \/ peer_save_rename
  \/ tick

SpecTwo == InitFrame /\ [][NextTwo]_vars

\* ─── Faults: process death and failing I/O inside save() ─────────────────
\* The process dies inside save() (possibly in the middle of writing the temp
\* file); a new manager is constructed over the same directory.
crash ==
  /\ pc # "idle"
  /\ faults < MaxFaults
  /\ faults' = faults + 1
  /\ fs' \in {fs} \cup (IF pc = "write" THEN {[fs EXCEPT ![temp_file] = Truncated]} ELSE {})
  /\ mem' = None
  /\ pc' = "idle"
  /\ op' = Call("__init__", "", 0)
  /\ result' = Result("killed")
  /\ callback_log' = <<>>
  /\ UNCHANGED <<clock, on_save_callback, pool_vars, sync_vars, peer>>

\* open()/json.dump() on the temp file raises OSError, before or after the
\* file was created.
save_write_fails ==
  /\ pc = "write"
  /\ faults < MaxFaults
  /\ faults' = faults + 1
  /\ fs' \in {fs, [fs EXCEPT ![temp_file] = Truncated]}
  /\ pc' = "idle"
  /\ result' = Result("OSError")
  /\ UNCHANGED <<mem, op, clock, on_save_callback, pool_vars, sync_vars, peer, callback_log>>

\* Path.rename() raises OSError; both files stay as they are.
save_rename_fails ==
  /\ pc = "rename"
  /\ faults < MaxFaults
  /\ faults' = faults + 1
  /\ pc' = "idle"
  /\ result' = Result("OSError")
  /\ UNCHANGED <<fs, mem, op, clock, on_save_callback, pool_vars, sync_vars, peer, callback_log>>

\* Faults are explored around load, save and the mutations that do not
\* depend on earlier checkpoint calls.
NextFault ==
  \/ load
  \/ save
  \/ save_updated_at
  \/ save_write
  \/ save_rename
  \/ invoke_callback
  \/ \E p \in Phase : transition_to_phase(p)
  \/ \E n \in TotalArgs : init_build_progress(n)
  \/ tick
  \/ crash
  \/ save_write_fails
  \/ save_rename_fails

SpecFault == Init /\ [][NextFault]_vars

\* ─── SyncTaskPool ────────────────────────────────────────────────────────
\* The concurrency limit the pool is constructed with.
max_concurrent == 2

\* asyncio.Semaphore: free permits and the FIFO of waiting tasks. A waiter
\* whose task is "granted" holds a future with a result (its permit is already
\* taken from value); a "waiting" waiter with must_cancel holds a cancelled one.
Semaphore(value) == [value |-> value, waiters |-> <<>>]

\* Variant: every call builds a new semaphore.
get_semaphore_fresh == Semaphore(max_concurrent)
get_semaphore == IF semaphore = None THEN Semaphore(max_concurrent) ELSE semaphore[1]

Remove(l, x) == SelectSeq(l, LAMBDA y : y # x)

\* Semaphore.locked(): no free permit, or a waiter whose future is not cancelled.
locked(sem, tk) ==
  \/ sem.value = 0
  \/ \E i \in DOMAIN sem.waiters :
       ~(tk[sem.waiters[i]].st = "waiting" /\ tk[sem.waiters[i]].must_cancel)

\* Variant: a waiter is woken without a permit being taken for it.
wake_up_next_free(sem, tk) ==
  LET open == {i \in DOMAIN sem.waiters :
                 tk[sem.waiters[i]].st = "waiting" /\ ~tk[sem.waiters[i]].must_cancel}
  IN IF open = {} THEN [sem |-> sem, task |-> tk, woke |-> FALSE]
     ELSE LET i == CHOOSE k \in open : \A j \in open : k <= j
          IN [sem |-> sem,
              task |-> [tk EXCEPT ![sem.waiters[i]].st = "granted"],
              woke |-> TRUE]

\* Semaphore._wake_up_next(): the first waiter whose future is not done gets a
\* permit.
wake_up_next(sem, tk) ==
  LET open == {i \in DOMAIN sem.waiters :
                 tk[sem.waiters[i]].st = "waiting" /\ ~tk[sem.waiters[i]].must_cancel}
  IN IF open = {} THEN [sem |-> sem, task |-> tk, woke |-> FALSE]
     ELSE LET i == CHOOSE k \in open : \A j \in open : k <= j
          IN [sem |-> [sem EXCEPT !.value = @ - 1],
              task |-> [tk EXCEPT ![sem.waiters[i]].st = "granted"],
              woke |-> TRUE]

\* The tail of Semaphore.acquire(): wake waiters while permits are free.
RECURSIVE wake_while_free(_, _)
wake_while_free(sem, tk) ==
  IF sem.value > 0
    THEN LET r == wake_up_next(sem, tk)
         IN IF r.woke THEN wake_while_free(r.sem, r.task) ELSE r
    ELSE [sem |-> sem, task |-> tk, woke |-> FALSE]

\* Variant: release() returns the permit without waking a waiter.
release_no_wake(sem, tk) ==
  [sem |-> [sem EXCEPT !.value = @ + 1], task |-> tk, woke |-> FALSE]

\* Semaphore.release()
release(sem, tk) == wake_up_next([sem EXCEPT !.value = @ + 1], tk)

\* The semaphore task t entered: the pool's, or one a reset() has dropped
\* since.
SemOf(t) == IF task[t].sem = resets THEN semaphore[1] ELSE detached[task[t].sem + 1][1]

PutSem(t, sem) ==
  /\ semaphore' = IF task[t].sem = resets THEN Some(sem) ELSE semaphore
  /\ detached' = IF task[t].sem = resets THEN detached
                 ELSE [detached EXCEPT ![task[t].sem + 1] = Some(sem)]

\* A task that has ended: it is in no semaphore any more.
left(r, st, res) ==
  [r EXCEPT !.st = st, !.res = res, !.must_cancel = FALSE, !.queued = FALSE, !.sem = 0]

finished(tk, t) == tk[t].st \in {"done", "cancelled"}
scheduled(tk, t) == tk[t].st \notin {"new", "rejected"}

active_count == Cardinality({t \in tasks : ~finished(task, t)})
pending_count == Cardinality(tasks)

\* Variant: the shutting-down flag is not consulted.
submit_ignores_shutdown(has_loop) ==
  /\ \E u \in TaskIds : task[u].st = "new"
  /\ LET t == CHOOSE u \in TaskIds : task[u].st = "new" /\ \A v \in TaskIds : task[v].st = "new" => u <= v
     IN IF ~has_loop
          THEN /\ task' = [task EXCEPT ![t].st = "rejected"]
               /\ UNCHANGED tasks
          ELSE /\ task' = [task EXCEPT ![t].st = "scheduled"]
               /\ tasks' = tasks \cup {t}
  /\ UNCHANGED <<manager_vars, sync_vars, peer, shutting_down, semaphore, shutdown_pc, pending, resets, detached>>

\* Variant: the created task is not added to the tracked set.
submit_untracked(has_loop) ==
  /\ \E u \in TaskIds : task[u].st = "new"
  /\ LET t == CHOOSE u \in TaskIds : task[u].st = "new" /\ \A v \in TaskIds : task[v].st = "new" => u <= v
     IN IF shutting_down \/ ~has_loop
          THEN task' = [task EXCEPT ![t].st = "rejected"]
          ELSE task' = [task EXCEPT ![t].st = "scheduled"]
  /\ UNCHANGED <<manager_vars, sync_vars, peer, shutting_down, semaphore, tasks, shutdown_pc, pending, resets, detached>>

\* submit(coro): the next coroutine is handed to the pool, from a thread with
\* or without a running event loop. "rejected": closed unstarted, None returned.
submit(has_loop) ==
  /\ \E u \in TaskIds : task[u].st = "new"
  /\ LET t == CHOOSE u \in TaskIds : task[u].st = "new" /\ \A v \in TaskIds : task[v].st = "new" => u <= v
     IN IF shutting_down
          THEN /\ task' = [task EXCEPT ![t].st = "rejected"]
               /\ UNCHANGED tasks
        ELSE IF ~has_loop
          THEN /\ task' = [task EXCEPT ![t].st = "rejected"]
               /\ UNCHANGED tasks
        ELSE /\ task' = [task EXCEPT ![t].st = "scheduled"]
             /\ tasks' = tasks \cup {t}
  /\ UNCHANGED <<manager_vars, sync_vars, peer, shutting_down, semaphore, shutdown_pc, pending, resets, detached>>

\* First step of _run_with_semaphore: `async with self._get_semaphore()`.
\* With a free permit and nobody queued the body starts at once.
acquire(t) ==
  /\ task[t].st = "scheduled"
  /\ ~task[t].must_cancel
  /\ LET sem == get_semaphore IN
       IF ~locked(sem, task)
         THEN /\ semaphore' = Some([sem EXCEPT !.value = @ - 1])
              /\ task' = [task EXCEPT ![t].st = "running", ![t].ran = TRUE, ![t].sem = resets]
         ELSE /\ semaphore' = Some([sem EXCEPT !.waiters = Append(@, t)])
              /\ task' = [task EXCEPT ![t].st = "waiting", ![t].queued = TRUE,
                                      ![t].sem = resets]
  /\ UNCHANGED <<manager_vars, sync_vars, peer, shutting_down, tasks, shutdown_pc, pending, resets, detached>>

\* A woken waiter resumes inside acquire(), leaves the queue and enters the
\* body.
resume(t) ==
  /\ task[t].st = "granted"
  /\ ~task[t].must_cancel
  /\ LET sem == [SemOf(t) EXCEPT !.waiters = Remove(@, t)]
         r == wake_while_free(sem, [task EXCEPT ![t].st = "running", ![t].ran = TRUE])
     IN /\ PutSem(t, r.sem)
        /\ task' = r.task
  /\ UNCHANGED <<manager_vars, sync_vars, peer, shutting_down, tasks, shutdown_pc, pending, resets>>

\* Variant: an exception of the body ends the task with that exception.
finish_uncaught(t, raised) ==
  /\ task[t].st = "running"
  /\ ~task[t].must_cancel
  /\ LET r == release(SemOf(t),
                      [task EXCEPT ![t] = left(@, "done",
                                                   IF raised THEN "exception" ELSE "value")])
     IN /\ PutSem(t, r.sem)
        /\ task' = r.task
  /\ UNCHANGED <<manager_vars, sync_vars, peer, shutting_down, tasks, shutdown_pc, pending, resets>>

\* The body returns or raises an Exception; `except Exception` turns the
\* latter into the result None; leaving `async with` releases the permit.
finish(t, raised) ==
  /\ task[t].st = "running"
  /\ ~task[t].must_cancel
  /\ LET r == release(SemOf(t),
                      [task EXCEPT ![t] = left(@, "done",
                                                   IF raised THEN "None" ELSE "value")])
     IN /\ PutSem(t, r.sem)
        /\ task' = r.task
  /\ UNCHANGED <<manager_vars, sync_vars, peer, shutting_down, tasks, shutdown_pc, pending, resets>>

\* CancelledError is thrown into a cancelled task at its next step: before
\* its first step, inside acquire() (queued, or already woken: the permit goes
\* back), or inside the body, which lets it through or suppresses it.
throw_cancelled(t, suppress) ==
  /\ task[t].must_cancel
  /\ task[t].st \in {"scheduled", "waiting", "granted", "running"}
  /\ suppress => task[t].st = "running"
  /\ LET gone == [task EXCEPT ![t] = left(@, "cancelled", "")] IN
       CASE task[t].st = "scheduled" ->
              /\ task' = gone
              /\ UNCHANGED <<semaphore, detached>>
         [] task[t].st = "waiting" ->
              LET r == wake_while_free([SemOf(t) EXCEPT !.waiters = Remove(@, t)], gone)
              IN PutSem(t, r.sem) /\ task' = r.task
         [] task[t].st = "granted" ->
              LET r == wake_while_free([SemOf(t) EXCEPT !.waiters = Remove(@, t),
                                                        !.value = @ + 1], gone)
              IN PutSem(t, r.sem) /\ task' = r.task
         [] task[t].st = "running" ->
              IF suppress
                THEN /\ task' = [task EXCEPT ![t].must_cancel = FALSE]
                     /\ UNCHANGED <<semaphore, detached>>
                ELSE LET r == release(SemOf(t), gone)
                     IN PutSem(t, r.sem) /\ task' = r.task
  /\ UNCHANGED <<manager_vars, sync_vars, peer, shutting_down, tasks, shutdown_pc, pending, resets>>

\* The done callback `self._tasks.discard`, run by the loop after the task
\* has finished.
discard(t) ==
  /\ t \in tasks
  /\ finished(task, t)
  /\ tasks' = tasks \ {t}
  /\ UNCHANGED <<manager_vars, sync_vars, peer, shutting_down, semaphore, task, shutdown_pc, pending, resets, detached>>

\* Variant: shutdown() cancels the tracked tasks as soon as it is called.
shutdown_call_eager ==
  /\ shutdown_pc = "idle"
  /\ shutting_down' = TRUE
  /\ IF tasks = {}
       THEN UNCHANGED <<task, shutdown_pc, pending>>
       ELSE /\ pending' = tasks
            /\ task' = [t \in TaskIds |->
                          IF t \in tasks /\ ~finished(task, t)
                            THEN [task[t] EXCEPT !.must_cancel = TRUE] ELSE task[t]]
            /\ shutdown_pc' = "grace"
  /\ UNCHANGED <<manager_vars, sync_vars, peer, semaphore, tasks, resets, detached>>

\* shutdown(timeout), up to the first asyncio.wait.
shutdown_call ==
  /\ shutdown_pc = "idle"
  /\ shutting_down' = TRUE
  /\ IF tasks = {}
       THEN UNCHANGED <<shutdown_pc, pending>>
       ELSE /\ pending' = tasks
            /\ shutdown_pc' = "wait"
  /\ UNCHANGED <<manager_vars, sync_vars, peer, semaphore, tasks, task, resets, detached>>

\* asyncio.wait returns with every task of the snapshot done.
shutdown_wait_done ==
  /\ shutdown_pc = "wait"
  /\ \A t \in pending : finished(task, t)
  /\ shutdown_pc' = "idle"
  /\ pending' = {}
  /\ UNCHANGED <<manager_vars, sync_vars, peer, shutting_down, semaphore, tasks, task, resets, detached>>

\* The timeout expires first: every task of the snapshot that is not done is
\* cancelled.
shutdown_timeout ==
  /\ shutdown_pc = "wait"
  /\ \E t \in pending : ~finished(task, t)
  /\ task' = [t \in TaskIds |->
                IF t \in pending /\ ~finished(task, t)
                  THEN [task[t] EXCEPT !.must_cancel = TRUE] ELSE task[t]]
  /\ shutdown_pc' = "grace"
  /\ UNCHANGED <<manager_vars, sync_vars, peer, shutting_down, semaphore, tasks, pending, resets, detached>>

\* The second asyncio.wait, over the cancelled tasks, returns (all of them
\* done, or its own timeout expired) and shutdown() returns.
shutdown_grace_end ==
  /\ shutdown_pc = "grace"
  /\ shutdown_pc' = "idle"
  /\ pending' = {}
  /\ UNCHANGED <<manager_vars, sync_vars, peer, shutting_down, semaphore, tasks, task, resets, detached>>

\* Variant: reset() leaves the shutting-down flag as it is.
reset_keeps_flag ==
  /\ resets < MaxResets
  /\ shutting_down
  /\ shutdown_pc = "idle"
  /\ resets' = resets + 1
  /\ tasks' = {}
  /\ detached' = Append(detached, semaphore)
  /\ semaphore' = None
  /\ UNCHANGED <<manager_vars, sync_vars, peer, shutting_down, task, shutdown_pc, pending>>

\* reset(): the flag, the tracked set and the semaphore are dropped; tasks
\* inside the old semaphore keep it. Callers use it as documented, after a
\* shutdown() has returned.
reset ==
  /\ resets < MaxResets
  /\ shutting_down
  /\ shutdown_pc = "idle"
  /\ resets' = resets + 1
  /\ shutting_down' = FALSE
  /\ tasks' = {}
  /\ detached' = Append(detached, semaphore)
  /\ semaphore' = None
  /\ UNCHANGED <<manager_vars, sync_vars, peer, task, shutdown_pc, pending>>

NextPool ==
  \/ \E has_loop \in BOOLEAN : submit(has_loop)
  \/ \E t \in TaskIds : acquire(t)
  \/ \E t \in TaskIds : resume(t)
  \/ \E t \in TaskIds, raised \in BOOLEAN : finish(t, raised)
  \/ \E t \in TaskIds, suppress \in BOOLEAN : throw_cancelled(t, suppress)
  \/ \E t \in TaskIds : discard(t)
  \/ shutdown_call
  \/ shutdown_wait_done
  \/ shutdown_timeout
  \/ shutdown_grace_end

\* The pool beside one manager over the fixture manifest.
InitPool == Init /\ fs[state_file].kind = "json" /\ ~on_save_callback

SpecPool == InitPool /\ [][NextPool]_vars

\* The event loop runs every task that is ready: a created task takes its
\* first step, a woken waiter resumes; and every body that is not cancelled
\* comes to its end.
FairPool ==
  \A t \in TaskIds :
    /\ WF_vars(acquire(t))
    /\ WF_vars(resume(t))
    /\ WF_vars(\E raised \in BOOLEAN : finish(t, raised))

\* The pool used from inside the running event loop.
NextPoolLive ==
  \/ submit(TRUE)
  \/ \E t \in TaskIds : acquire(t)
  \/ \E t \in TaskIds : resume(t)
  \/ \E t \in TaskIds, raised \in BOOLEAN : finish(t, raised)
  \/ \E t \in TaskIds, suppress \in BOOLEAN : throw_cancelled(t, suppress)
  \/ \E t \in TaskIds : discard(t)
  \/ shutdown_call
  \/ shutdown_wait_done
  \/ shutdown_timeout
  \/ shutdown_grace_end

SpecPoolLive == InitPool /\ [][NextPoolLive]_vars /\ FairPool

\* ─── The pooled save callback ────────────────────────────────────────────
\* Variant: the callback runs the reconciliation itself before it returns.
pooled_callback_inline(has_loop) ==
  /\ pc = "callback"
  /\ \E u \in TaskIds : task[u].st = "new"
  /\ LET t == CHOOSE u \in TaskIds : task[u].st = "new" /\ \A v \in TaskIds : task[v].st = "new" => u <= v
     IN /\ task' = [task EXCEPT ![t].st = "done", ![t].ran = TRUE, ![t].res = "value"]
        /\ UNCHANGED tasks
  /\ callback_log' = Append(callback_log, [arg |-> session_dir, raised |-> FALSE])
  /\ pc' = "idle"
  /\ result' = Ok
  /\ UNCHANGED <<fs, mem, op, clock, on_save_callback, faults, sync_vars, peer,
                 shutting_down, semaphore, shutdown_pc, pending, resets, detached>>

\* Variant: while a reconciliation is tracked and has not started, a further
\* save schedules no second one.
pooled_callback_coalesces(has_loop) ==
  /\ pc = "callback"
  /\ \E u \in TaskIds : task[u].st = "new"
  /\ LET t == CHOOSE u \in TaskIds : task[u].st = "new" /\ \A v \in TaskIds : task[v].st = "new" => u <= v
     IN IF shutting_down \/ ~has_loop \/ \E u \in tasks : task[u].st = "scheduled"
          THEN /\ task' = [task EXCEPT ![t].st = "rejected"]
               /\ UNCHANGED tasks
          ELSE /\ task' = [task EXCEPT ![t].st = "scheduled"]
               /\ tasks' = tasks \cup {t}
  /\ callback_log' = Append(callback_log, [arg |-> session_dir, raised |-> FALSE])
  /\ pc' = "idle"
  /\ result' = Ok
  /\ UNCHANGED <<fs, mem, op, clock, on_save_callback, faults, sync_vars, peer,
                 shutting_down, semaphore, shutdown_pc, pending, resets, detached>>

\* The callback make_pooled_sync_callback() returns, invoked by save() with
\* the session directory: default_pool.submit(_sync_session_to_db(...)), from
\* a thread with or without a running event loop. submit() creates the task
\* or closes the coroutine; either way the callback returns None at once.
pooled_callback(has_loop) ==
  /\ pc = "callback"
  /\ \E u \in TaskIds : task[u].st = "new"
  /\ LET t == CHOOSE u \in TaskIds : task[u].st = "new" /\ \A v \in TaskIds : task[v].st = "new" => u <= v
     IN IF shutting_down
          THEN /\ task' = [task EXCEPT ![t].st = "rejected"]
               /\ UNCHANGED tasks
        ELSE IF ~has_loop
          THEN /\ task' = [task EXCEPT ![t].st = "rejected"]
               /\ UNCHANGED tasks
        ELSE /\ task' = [task EXCEPT ![t].st = "scheduled"]
             /\ tasks' = tasks \cup {t}
  /\ callback_log' = Append(callback_log, [arg |-> session_dir, raised |-> FALSE])
  /\ pc' = "idle"
  /\ result' = Ok
  /\ UNCHANGED <<fs, mem, op, clock, on_save_callback, faults, sync_vars, peer,
                 shutting_down, semaphore, shutdown_pc, pending, resets, detached>>

\* A manager with the pooled callback beside the pool. save() is synchronous
\* code: when it runs in the event loop's thread no task takes a step until
\* it has returned, and from another thread the pool only rejects what it
\* submits, so the pool's steps are taken between the manager's calls. A call
\* that saves is made while a coroutine is left to submit, and shutdown()
\* waits without its timeout expiring.
SlotsLeft == \E u \in TaskIds : task[u].st = "new"

NextSave ==
  \/ load
  \/ SlotsLeft /\ save
  \/ SlotsLeft /\ (\E st \in StatusArgs : set_status(st))
  \/ save_updated_at
  \/ save_write
  \/ save_rename
  \/ \E has_loop \in BOOLEAN : pooled_callback(has_loop)
  \/ pc = "idle" /\ (\E t \in TaskIds : acquire(t))
  \/ pc = "idle" /\ (\E t \in TaskIds : resume(t))
  \/ pc = "idle" /\ (\E t \in TaskIds, raised \in BOOLEAN : finish(t, raised))
  \/ pc = "idle" /\ (\E t \in TaskIds : discard(t))
  \/ pc = "idle" /\ shutdown_call
  \/ pc = "idle" /\ shutdown_wait_done

InitSave == Init /\ fs[state_file].kind = "json" /\ on_save_callback

\* save() runs to its return, and the event loop runs every task that is
\* ready.
FairSave ==
  /\ WF_vars(save_updated_at \/ save_write \/ save_rename
               \/ \E has_loop \in BOOLEAN : pooled_callback(has_loop))
  /\ \A t \in TaskIds :
       /\ WF_vars(pc = "idle" /\ acquire(t))
       /\ WF_vars(pc = "idle" /\ resume(t))
       /\ WF_vars(pc = "idle" /\ \E raised \in BOOLEAN : finish(t, raised))

SpecSave == InitSave /\ [][NextSave]_vars /\ FairSave

\* The pool with reset().
NextPoolReset ==
  \/ \E has_loop \in BOOLEAN : submit(has_loop)
  \/ \E t \in TaskIds : acquire(t)
  \/ \E t \in TaskIds : resume(t)
  \/ \E t \in TaskIds, raised \in BOOLEAN : finish(t, raised)
  \/ \E t \in TaskIds, suppress \in BOOLEAN : throw_cancelled(t, suppress)
  \/ \E t \in TaskIds : discard(t)
  \/ shutdown_call
  \/ shutdown_wait_done
  \/ shutdown_timeout
  \/ shutdown_grace_end
  \/ reset

SpecPoolReset == InitPool /\ [][NextPoolReset]_vars

\* ─── Reconciler: manifests ───────────────────────────────────────────────
\* dict.get(key, default) and `x or default` on an optional number.
get(d, k, default) == IF k \in DOMAIN d THEN d[k] ELSE default
or_default(o, default) == IF o = None THEN default ELSE o[1]
EmptyDict == <<>>

\* Generation-2 manifests as the StateManager writes them: the fresh fixture,
\* the same session in build with checkpoint 1 done and 2 current, and the
\* session with every checkpoint done (current_checkpoint back to null).
sample_state_v2 == model_dump(sample_state)
sample_state_in_build ==
  model_dump([sample_state EXCEPT
     !.topic = "Build Test Session",
     !.current_phase = "build",
     !.build_progress = [checkpoints_total |-> Some(MaxTotal),
                         checkpoints_completed |-> <<1>>,
                         current_checkpoint |-> Some(MaxTotal)],
     !.git = [branch |-> Some("feature/build-test"), worktree |-> None,
              base_branch |-> Some("main")],
     !.commits = <<Commit("abc123", "feat: checkpoint 1", Some(1), 0)>>])
sample_state_built ==
  [sample_state_in_build EXCEPT
     !.build_progress = [checkpoints_total |-> Some(MaxTotal),
                         checkpoints_completed |-> [i \in 1..MaxTotal |-> i],
                         current_checkpoint |-> None]]

\* The generation-1 manifest that says what sample_state_in_build says: no
\* phase_history and no build_progress, but phases, plan_state, granularity
\* and commits keyed by checkpoint_id.
sample_state_v1 ==
  [session_id |-> "2026-01-01_test-session",
   topic |-> "Build Test Session",
   granularity |-> "full",
   created_at |-> isoformat(0),
   updated_at |-> isoformat(0),
   current_phase |-> "build",
   phases |-> [spec |-> [status |-> "finalized", started_at |-> isoformat(0),
                         finalized_at |-> None],
               plan |-> [status |-> "finalized", started_at |-> None,
                         finalized_at |-> None],
               build |-> [status |-> "in_progress", started_at |-> None,
                          completed_at |-> None]],
   plan_state |-> [status |-> "in_progress",
                   checkpoints_total |-> Some(MaxTotal),
                   checkpoints_completed |-> <<1>>,
                   current_checkpoint |-> Some(MaxTotal)],
   commits |-> <<[sha |-> "abc123", message |-> "feat: checkpoint 1",
                  checkpoint_id |-> Some(1), created_at |-> isoformat(0)]>>]

\* A manifest that carries build_progress but no phase_history.
sample_state_no_history ==
  [k \in DOMAIN sample_state_in_build \ {"phase_history"} |-> sample_state_in_build[k]]

\* The manifests a session directory starts with, and the order in which the
\* StateManager's saves replace one by the next.
Manifests ==
  {sample_state_v2, sample_state_in_build, sample_state_built, sample_state_v1,
   sample_state_no_history}
Saves == <<sample_state_v2, sample_state_in_build, sample_state_built>>

\* ─── Reconciler: sync.py mapping ─────────────────────────────────────────
is_v2_both_keys(parsed) == "phase_history" \in DOMAIN parsed /\ "build_progress" \in DOMAIN parsed
is_v2(parsed) == "phase_history" \in DOMAIN parsed \/ "build_progress" \in DOMAIN parsed

phase_history_of(parsed) ==
  IF is_v2(parsed) THEN get(parsed, "phase_history", EmptyDict)
  ELSE LET phases == get(parsed, "phases", EmptyDict)
           at(phase, key) == get(get(phases, phase, EmptyDict), key, None)
       IN [f \in HistFields |->
             CASE f = "spec_started_at" -> at("spec", "started_at")
               [] f = "spec_completed_at" -> at("spec", "finalized_at")
               [] f = "plan_started_at" -> at("plan", "started_at")
               [] f = "plan_completed_at" -> at("plan", "finalized_at")
               [] f = "build_started_at" -> at("build", "started_at")
               [] f = "build_completed_at" -> at("build", "completed_at")
               [] OTHER -> None]

commits_list_of(parsed) ==
  LET raw_commits == get(parsed, "commits", <<>>) IN
    IF is_v2(parsed) THEN raw_commits
    ELSE [i \in DOMAIN raw_commits |->
            LET c == raw_commits[i] IN
              [sha |-> c.sha, message |-> c.message,
               checkpoint |-> IF get(c, "checkpoint_id", None) # None
                              THEN c.checkpoint_id ELSE get(c, "checkpoint", None),
               created_at |-> c.created_at]]

git_of(parsed) == IF is_v2(parsed) THEN get(parsed, "git", EmptyDict) ELSE EmptyDict

progress_of(parsed) ==
  IF is_v2(parsed) THEN get(parsed, "build_progress", EmptyDict)
  ELSE get(parsed, "plan_state", EmptyDict)

\* SessionCreate
map_state_to_session_create(parsed, session_slug) ==
  [session_slug |-> session_slug,
   title |-> IF "topic" \in DOMAIN parsed THEN Some(parsed.topic) ELSE None,
   session_type |-> get(parsed, "session_type", get(parsed, "granularity", "full")),
   git_branch |-> get(git_of(parsed), "branch", None),
   git_worktree |-> get(git_of(parsed), "worktree", None),
   git_base_branch |-> get(git_of(parsed), "base_branch", None),
   current_phase |-> get(parsed, "current_phase", "spec"),
   status |-> get(parsed, "status", "active"),
   phase_history |-> phase_history_of(parsed),
   checkpoints_total |-> or_default(get(progress_of(parsed), "checkpoints_total", None), 0),
   checkpoints_completed_list |-> get(progress_of(parsed), "checkpoints_completed", <<>>),
   current_checkpoint |-> get(progress_of(parsed), "current_checkpoint", None),
   commits_list |-> commits_list_of(parsed),
   artifacts |-> get(parsed, "artifacts", Artifacts)]

\* The artifact files of a session directory: Path.exists() of spec.md and plan.json.
exists(dir) == [spec_exists |-> dir.spec_md, plan_exists |-> dir.plan_json]

\* SessionUpdate: every field is optional, None is "not given".
\* Variant: the artifact flags are taken from the manifest's artifacts entry.
map_state_to_session_update_declared(parsed, dir) ==
  [title |-> IF "topic" \in DOMAIN parsed THEN Some(parsed.topic) ELSE None,
   current_phase |-> Some(get(parsed, "current_phase", "spec")),
   status |-> Some(get(parsed, "status", "active")),
   git_branch |-> get(git_of(parsed), "branch", None),
   git_worktree |-> get(git_of(parsed), "worktree", None),
   git_base_branch |-> get(git_of(parsed), "base_branch", None),
   spec_exists |-> Some("spec" \in DOMAIN get(parsed, "artifacts", Artifacts)),
   plan_exists |-> Some("plan" \in DOMAIN get(parsed, "artifacts", Artifacts)),
   checkpoints_total |-> get(progress_of(parsed), "checkpoints_total", Some(0)),
   checkpoints_completed |-> Some(Len(get(progress_of(parsed), "checkpoints_completed", <<>>))),
   checkpoints_completed_list |-> Some(get(progress_of(parsed), "checkpoints_completed", <<>>)),
   current_checkpoint |-> get(progress_of(parsed), "current_checkpoint", None),
   phase_history |-> Some(phase_history_of(parsed)),
   commits_list |-> Some(commits_list_of(parsed)),
   artifacts |-> Some(get(parsed, "artifacts", Artifacts))]
map_state_to_session_update(parsed, dir) ==
  [title |-> IF "topic" \in DOMAIN parsed THEN Some(parsed.topic) ELSE None,
   current_phase |-> Some(get(parsed, "current_phase", "spec")),
   status |-> Some(get(parsed, "status", "active")),
   git_branch |-> get(git_of(parsed), "branch", None),
   git_worktree |-> get(git_of(parsed), "worktree", None),
   git_base_branch |-> get(git_of(parsed), "base_branch", None),
   spec_exists |-> Some(exists(dir).spec_exists),
   plan_exists |-> Some(exists(dir).plan_exists),
   checkpoints_total |-> get(progress_of(parsed), "checkpoints_total", Some(0)),
   checkpoints_completed |-> Some(Len(get(progress_of(parsed), "checkpoints_completed", <<>>))),
   checkpoints_completed_list |-> Some(get(progress_of(parsed), "checkpoints_completed", <<>>)),
   current_checkpoint |-> get(progress_of(parsed), "current_checkpoint", None),
   phase_history |-> Some(phase_history_of(parsed)),
   commits_list |-> Some(commits_list_of(parsed)),
   artifacts |-> Some(get(parsed, "artifacts", Artifacts))]

\* SessionUpdate(spec_exists=..., plan_exists=...): the other fields are unset.
flags_update(flags) ==
  [spec_exists |-> Some(flags.spec_exists), plan_exists |-> Some(flags.plan_exists)]

\* ─── Reconciler: crud.py ─────────────────────────────────────────────────
\* The columns of the sessions table that may hold NULL.
Nullable == {"title", "git_branch", "git_worktree", "git_base_branch", "current_checkpoint"}

\* Session(...): the row create_session() adds, with the model's defaults for
\* the columns the DTO does not carry.
create_session(data, id, now) ==
  [id |-> id,
   session_slug |-> data.session_slug,
   title |-> data.title,
   session_type |-> data.session_type,
   git_worktree |-> data.git_worktree,
   git_branch |-> data.git_branch,
   git_base_branch |-> data.git_base_branch,
   current_phase |-> data.current_phase,
   status |-> data.status,
   phase_history |-> data.phase_history,
   spec_exists |-> FALSE,
   plan_exists |-> FALSE,
   checkpoints_total |-> data.checkpoints_total,
   checkpoints_completed |-> Len(data.checkpoints_completed_list),
   checkpoints_completed_list |-> data.checkpoints_completed_list,
   current_checkpoint |-> data.current_checkpoint,
   commits_list |-> data.commits_list,
   artifacts |-> data.artifacts,
   updated_at |-> now]

\* data.model_dump(exclude_unset=True, exclude_none=True): the fields given
\* and not None.
update_data(data) == {k \in DOMAIN data : data[k] # None}

\* Variant: an update appends the manifest's commits to the row's.
update_session_append_commits(session, data, now) ==
  [k \in DOMAIN session |->
     IF k = "updated_at" THEN now
     ELSE IF k = "commits_list" /\ k \in update_data(data) THEN session[k] \o data[k][1]
     ELSE IF k \in update_data(data)
          THEN (IF k \in Nullable THEN data[k] ELSE data[k][1])
          ELSE session[k]]
update_session(session, data, now) ==
  [k \in DOMAIN session |->
     IF k = "updated_at" THEN now
     ELSE IF k \in update_data(data)
          THEN (IF k \in Nullable THEN data[k] ELSE data[k][1])
          ELSE session[k]]

\* ─── Reconciler: agents/sessions/ ────────────────────────────────────────
\* An entry of agents/sessions/: a session directory with its manifest file
\* and its artifact files, or a plain file.
Dir(manifest, spec_md, plan_json) ==
  [is_dir |-> TRUE, state_json |-> manifest, spec_md |-> spec_md, plan_json |-> plan_json]
PlainFile == [is_dir |-> FALSE, state_json |-> Absent, spec_md |-> FALSE, plan_json |-> FALSE]

\* iterdir(): the entries, in the directory's order.
iterdir == [i \in 1..Len(disk) |-> i]

\* ─── Reconciler: the index store ─────────────────────────────────────────
\* What a task's AsyncSession reads: the committed rows, and in their place
\* the rows it has flushed itself.
Put(rows, r) == {p \in rows : p.id # r.id} \cup {r}
View(t) == {r \in db : \A p \in sync[t].rows : p.id # r.id} \cup sync[t].rows
get_session_by_slug(t, slug) == {r \in View(t) : r.session_slug = slug}
Row(t, id) == CHOOSE r \in View(t) : r.id = id

\* A flush waits while another open transaction holds an uncommitted write of
\* the same row, or an uncommitted insert of the same slug.
Locked(t, id) == \E u \in SyncIds \ {t} : \E p \in sync[u].rows : p.id = id
Inserting(t, slug) == \E u \in SyncIds \ {t} : \E p \in sync[u].rows : p.session_slug = slug

\* ─── Reconciler: sync_one ────────────────────────────────────────────────
\* The tasks in flight; the pool that runs them lets max_concurrent run at once.
InFlight == {t \in SyncIds : sync[t].pc \notin {"new", "done"}}

Reason(err) ==
  CASE err = "SessionNotFoundOnFilesystem" -> "state.json not found"
    [] err = "InvalidStateJson" -> "invalid state.json"
    [] OTHER -> "unexpected error"

\* sync_one raises. _sync_session_async: the session rolls back and the error
\* is logged. sync_all: the slug goes to failed and the loop goes on; a failed
\* flush leaves the session's transaction invalid.
\* The task is over: its session is closed, and what it flushed without
\* committing is gone. What is kept of it is what it read and reported.
closed(s, res) ==
  [NewSync EXCEPT !.pc = "done", !.kind = s.kind, !.res = res,
                  !.state = IF s.kind = "one" THEN s.state ELSE None,
                  !.touched = s.touched,
                  !.synced = s.synced, !.failed = s.failed, !.total = s.total]

\* Variant: sync_all has no except clause, an error of sync_one ends the batch.
raised_aborts(s, err, poisons) ==
  closed(s, err)
raised(s, err, poisons) ==
  IF s.kind = "one"
  THEN closed(s, err)
  ELSE [s EXCEPT !.pc = "loop", !.res = err, !.poisoned = @ \/ poisons,
                 !.failed = Append(@, [session_slug |-> s.slug, error |-> Reason(err)])]

\* sync_one returns the session. _sync_session_async goes on to commit;
\* sync_all appends the summary entry.
returned(s, session) ==
  IF s.kind = "one"
  THEN [s EXCEPT !.pc = "commit", !.res = "ok", !.ret = Some(session)]
  ELSE [s EXCEPT !.pc = "loop", !.res = "ok", !.ret = Some(session),
                 !.synced = Append(@, [session_slug |-> s.slug, id |-> session.id,
                                       current_phase |-> session.current_phase,
                                       status |-> session.status])]

\* The call's start, up to its first await: the manifest is found and parsed.
\* Variant: the index store is consulted before the manifest is looked at.
sync_session_from_filesystem_lookup_first(s, slug) ==
  LET c == [s EXCEPT !.slug = slug, !.state = None, !.path = "", !.existing = None,
                     !.data = None, !.ret = None, !.touched = TRUE, !.res = ""]
  IN IF disk[slug].state_json.kind = "absent"
       THEN raised(c, "SessionNotFoundOnFilesystem", FALSE)
     ELSE IF disk[slug].state_json.kind # "json"
       THEN raised(c, "InvalidStateJson", FALSE)
     ELSE [c EXCEPT !.pc = "lookup", !.state = Some(disk[slug].state_json.doc)]
sync_session_from_filesystem(s, slug) ==
  LET c == [s EXCEPT !.slug = slug, !.state = None, !.path = "", !.existing = None,
                     !.data = None, !.ret = None, !.touched = FALSE, !.res = ""]
  IN IF disk[slug].state_json.kind = "absent"
       THEN raised(c, "SessionNotFoundOnFilesystem", FALSE)
     ELSE IF disk[slug].state_json.kind # "json"
       THEN raised(c, "InvalidStateJson", FALSE)
     ELSE [c EXCEPT !.pc = "lookup", !.state = Some(disk[slug].state_json.doc)]

\* _sync_session_async(session_dir, working_dir): opens a session and calls sync_one.
sync_session_async(t, slug) ==
  /\ sync[t].pc = "new"
  /\ \A u \in SyncIds : u < t => sync[u].pc # "new"
  /\ Cardinality(InFlight) < max_concurrent
  /\ slug \in DOMAIN disk
  /\ sync' = [sync EXCEPT ![t] = sync_session_from_filesystem([@ EXCEPT !.kind = "one"], slug)]
  /\ UNCHANGED <<manager_vars, pool_vars, peer, disk, db, uuids>>

\* get_session_by_slug() answers; the caller maps the manifest for the path it takes.
lookup(t) ==
  /\ sync[t].pc = "lookup"
  /\ LET s == sync[t]
         existing == get_session_by_slug(t, s.slug)
     IN sync' = [sync EXCEPT ![t] =
          IF s.poisoned THEN raised(s, "Exception", FALSE)
          ELSE IF existing # {}
            THEN [s EXCEPT !.pc = "update", !.touched = TRUE, !.path = "update",
                           !.existing = Some((CHOOSE r \in existing : TRUE).id),
                           !.data = Some(map_state_to_session_update(s.state[1], disk[s.slug]))]
          ELSE [s EXCEPT !.pc = "create", !.touched = TRUE, !.path = "create"]]
  /\ UNCHANGED <<manager_vars, pool_vars, peer, disk, db, uuids>>

\* Update path: update_session(db, existing.id, update_data), and the return.
update(t) ==
  /\ sync[t].pc = "update"
  /\ ~Locked(t, sync[t].existing[1])
  /\ LET s == sync[t]
         session == update_session(Row(t, s.existing[1]), s.data[1], clock)
     IN sync' = [sync EXCEPT ![t] = returned([s EXCEPT !.rows = Put(@, session)], session)]
  /\ UNCHANGED <<manager_vars, pool_vars, peer, disk, db, uuids>>

\* Create path: create_session(db, create_data); the artifact files are looked
\* at once the row is flushed.
\* Variant: the table has no unique constraint on session_slug.
create_no_unique(t) ==
  /\ sync[t].pc = "create"
  /\ LET s == sync[t]
         session == create_session(map_state_to_session_create(s.state[1], s.slug),
                                   uuids + 1, clock)
     IN /\ sync' = [sync EXCEPT ![t] =
                      [s EXCEPT !.pc = "flags", !.rows = Put(@, session),
                                !.existing = Some(session.id),
                                !.data = Some(flags_update(exists(disk[s.slug])))]]
        /\ uuids' = uuids + 1
  /\ UNCHANGED <<manager_vars, pool_vars, peer, disk, db>>
create(t) ==
  /\ sync[t].pc = "create"
  /\ ~Inserting(t, sync[t].slug)
  /\ LET s == sync[t]
         session == create_session(map_state_to_session_create(s.state[1], s.slug),
                                   uuids + 1, clock)
     IN IF \E r \in db : r.session_slug = s.slug
        THEN /\ sync' = [sync EXCEPT ![t] = raised(s, "IntegrityError", TRUE)]
             /\ UNCHANGED uuids
        ELSE /\ sync' = [sync EXCEPT ![t] =
                           [s EXCEPT !.pc = "flags", !.rows = Put(@, session),
                                     !.existing = Some(session.id),
                                     !.data = Some(flags_update(exists(disk[s.slug])))]]
             /\ uuids' = uuids + 1
  /\ UNCHANGED <<manager_vars, pool_vars, peer, disk, db>>

\* Create path: update_session(db, session.id, SessionUpdate(spec_exists, plan_exists)),
\* the refresh and the return.
flags(t) ==
  /\ sync[t].pc = "flags"
  /\ LET s == sync[t]
         session == update_session(Row(t, s.existing[1]), s.data[1], clock)
     IN sync' = [sync EXCEPT ![t] = returned([s EXCEPT !.rows = Put(@, session)], session)]
  /\ UNCHANGED <<manager_vars, pool_vars, peer, disk, db, uuids>>

\* get_async_session() leaves its block: commit, or rollback when commit raises.
rollback(s) == closed(s, "Exception")
commit(t) ==
  /\ sync[t].pc = "commit"
  /\ LET s == sync[t] IN
       IF s.poisoned
       THEN /\ sync' = [sync EXCEPT ![t] = rollback(s)]
            /\ UNCHANGED db
       ELSE /\ sync' = [sync EXCEPT ![t] = closed(s, "ok")]
            /\ db' = {r \in db : \A p \in s.rows : p.id # r.id} \cup s.rows
  /\ UNCHANGED <<manager_vars, pool_vars, peer, disk, uuids>>

\* An await of the task raises: the store call fails, with or without
\* invalidating the session's transaction.
fail(t, poisons) ==
  /\ faults < MaxFaults
  /\ sync[t].pc \in {"lookup", "update", "create", "flags", "commit"}
  /\ faults' = faults + 1
  /\ sync' = [sync EXCEPT ![t] =
       IF sync[t].pc = "commit" THEN rollback(sync[t])
       ELSE raised([sync[t] EXCEPT !.touched = TRUE], "Exception", poisons)]
  /\ UNCHANGED <<fs, mem, pc, op, result, clock, on_save_callback, callback_log,
                 pool_vars, peer, disk, db, uuids>>

\* ─── Reconciler: sync_all ────────────────────────────────────────────────
\* _batch_sync_async(working_dir): opens a session and calls sync_all, which
\* lists agents/sessions/.
batch_sync_async(t) ==
  /\ sync[t].pc = "new"
  /\ \A u \in SyncIds : u < t => sync[u].pc # "new"
  /\ Cardinality(InFlight) < max_concurrent
  /\ sync' = [sync EXCEPT ![t] = [@ EXCEPT !.kind = "all", !.pc = "loop", !.todo = iterdir]]
  /\ UNCHANGED <<manager_vars, pool_vars, peer, disk, db, uuids>>

\* One turn of the loop, up to the first await of the sync_one call it makes.
sync_all_iter(t) ==
  /\ sync[t].pc = "loop"
  /\ sync[t].todo # <<>>
  /\ LET name == Head(sync[t].todo)
         s == [sync[t] EXCEPT !.todo = Tail(@)]
     IN sync' = [sync EXCEPT ![t] =
          IF ~disk[name].is_dir THEN s
          ELSE IF disk[name].state_json.kind = "absent"
            THEN [s EXCEPT !.failed = Append(@, [session_slug |-> name,
                                                  error |-> "state.json not found"])]
          ELSE sync_session_from_filesystem(s, name)]
  /\ UNCHANGED <<manager_vars, pool_vars, peer, disk, db, uuids>>

\* The loop is over: sync_all returns its summary.
sync_all_return(t) ==
  /\ sync[t].pc = "loop"
  /\ sync[t].todo = <<>>
  /\ sync' = [sync EXCEPT ![t] =
       [@ EXCEPT !.pc = "commit",
                 !.total = Some(Len(sync[t].synced) + Len(sync[t].failed))]]
  /\ UNCHANGED <<manager_vars, pool_vars, peer, disk, db, uuids>>

\* ─── Reconciler: the session directory changes ───────────────────────────
\* A StateManager save() of the session puts the next manifest in place.
save_manifest(n) ==
  /\ n \in DOMAIN disk
  /\ disk[n].state_json.kind = "json"
  /\ \E i \in 1..(Len(Saves) - 1) :
       /\ disk[n].state_json.doc = Saves[i]
       /\ disk' = [disk EXCEPT ![n].state_json = JsonFile(Saves[i + 1])]
  /\ UNCHANGED <<manager_vars, pool_vars, peer, db, sync, uuids>>

\* An artifact file of the session is deleted.
remove_artifact(n, f) ==
  /\ n \in DOMAIN disk
  /\ disk[n][f]
  /\ disk' = [disk EXCEPT ![n][f] = FALSE]
  /\ UNCHANGED <<manager_vars, pool_vars, peer, db, sync, uuids>>

\* ─── Reconciler: specifications ──────────────────────────────────────────
\* The row of a session that was reconciled when its manifest was still the
\* fresh one and only spec.md existed.
indexed_before ==
  update_session(create_session(map_state_to_session_create(sample_state_v2, 1), 1, 0),
                 flags_update([spec_exists |-> TRUE, plan_exists |-> FALSE]), 0)

\* One session directory, reconciled by concurrent tasks while it changes; a
\* directory whose manifest is gone or damaged may have been reconciled before.
InitSync ==
  /\ InitCore
  /\ fs[state_file].kind = "json"
  /\ ~on_save_callback
  /\ disk \in {<<Dir(m, s, p)>> :
                 m \in {Absent, Garbage} \cup {JsonFile(d) : d \in Manifests},
                 s \in BOOLEAN, p \in BOOLEAN}
  /\ db \in IF disk[1].state_json.kind = "json" THEN {{}} ELSE {{}, {indexed_before}}
  /\ sync = [t \in SyncIds |-> NewSync]
  /\ uuids = Cardinality(db)

NextSync ==
  \/ \E t \in SyncIds : sync_session_async(t, 1)
  \/ \E t \in SyncIds : lookup(t)
  \/ \E t \in SyncIds : update(t)
  \/ \E t \in SyncIds : create(t)
  \/ \E t \in SyncIds : flags(t)
  \/ \E t \in SyncIds : commit(t)
  \/ \E t \in SyncIds, poisons \in BOOLEAN : fail(t, poisons)
  \/ save_manifest(1)
  \/ \E f \in {"spec_md", "plan_json"} : remove_artifact(1, f)
  \/ tick

SpecSync == InitSync /\ [][NextSync]_vars

\* A project's agents/sessions/, reconciled by concurrent batches and tasks.
Entries ==
  {PlainFile, Dir(Absent, TRUE, FALSE), Dir(Garbage, TRUE, FALSE),
   Dir(JsonFile(sample_state_in_build), TRUE, FALSE)}

InitBatch ==
  /\ InitCore
  /\ fs[state_file].kind = "json"
  /\ ~on_save_callback
  /\ disk \in [1..MaxDirs -> Entries]
  /\ db = {}
  /\ sync = [t \in SyncIds |-> NewSync]
  /\ uuids = 0

NextBatch ==
  \/ \E t \in SyncIds : sync_session_async(t, 1)
  \/ \E t \in SyncIds : batch_sync_async(t)
  \/ \E t \in SyncIds : sync_all_iter(t)
  \/ \E t \in SyncIds : sync_all_return(t)
  \/ \E t \in SyncIds : lookup(t)
  \/ \E t \in SyncIds : update(t)
  \/ \E t \in SyncIds : create(t)
  \/ \E t \in SyncIds : flags(t)
  \/ \E t \in SyncIds : commit(t)
  \/ \E t \in SyncIds, poisons \in BOOLEAN : fail(t, poisons)

SpecBatch == InitBatch /\ [][NextBatch]_vars

\* ─── Properties ──────────────────────────────────────────────────────────
AllowedPairs ==
  {<<"spec", "plan">>, <<"plan", "build">>, <<"build", "docs">>,
   <<"build", "complete">>, <<"docs", "complete">>}

\* current_phase as seen through the `state` property ("none": no state).
PhaseOf(a) == IF a.res.kind = "ok" THEN a.st[1].current_phase ELSE "none"
DiskPhase == IF fs[state_file].kind = "json" THEN fs[state_file].doc.current_phase ELSE "none"

\* current_phase, phase_history and build_progress as seen through `state`.
Mutable(a) ==
  IF a.res.kind = "ok"
    THEN Some(<<a.st[1].current_phase, a.st[1].phase_history, a.st[1].build_progress>>)
    ELSE None

HistGet(h, f) == IF f \in DOMAIN h THEN h[f] ELSE None

StrictlySorted(l) == \A i, j \in DOMAIN l : i < j => l[i] < l[j]

BuildProgressOk(bp) ==
  /\ StrictlySorted(bp.checkpoints_completed)
  /\ \A i \in DOMAIN bp.checkpoints_completed :
       /\ bp.checkpoints_total # None
       /\ 1 <= bp.checkpoints_completed[i]
       /\ bp.checkpoints_completed[i] <= bp.checkpoints_total[1]

AllDone(bp) ==
  \A k \in 1..bp.checkpoints_total[1] : contains(bp.checkpoints_completed, k)

\* C1: transition_to_phase(to) called in phase `from` is accepted (it goes on
\* to save with current_phase = to, and the save returns normally) exactly
\* when (from, to) is one of the five allowed pairs; every other pair raises
\* InvalidPhaseTransitionError carrying from and to.
C1_TransitionAllowedIff ==
  [][/\ \A to \in Phase :
          (transition_to_phase(to) /\ state.res.kind = "ok") =>
             LET from == state.st[1].current_phase IN
               IF <<from, to>> \in AllowedPairs
                 THEN /\ pc' = "save"
                      /\ result' = Running
                      /\ mem'[1].current_phase = to
                 ELSE /\ pc' = "idle"
                      /\ result' = InvalidPhaseTransitionError(from, to)
     /\ (op.name = "transition_to_phase" /\ pc # "idle" /\ pc' = "idle") => result' = Ok]_vars

\* A backward move build -> plan was rejected with from and to in the error.
C1_Witness ==
  /\ op = Call("transition_to_phase", "plan", 0)
  /\ result = InvalidPhaseTransitionError("build", "plan")

\* C2: current_phase (in memory and in state.json) changes only in a
\* transition_to_phase call and only along an allowed edge; once it is
\* complete no operation changes it.
C2_PhaseIsAPath ==
  [][/\ PhaseOf(state') # PhaseOf(state) =>
          /\ op'.name = "transition_to_phase"
          /\ op'.phase = PhaseOf(state')
          /\ <<PhaseOf(state), PhaseOf(state')>> \in AllowedPairs
     /\ DiskPhase' # DiskPhase =>
          /\ op.name = "transition_to_phase"
          /\ <<DiskPhase, DiskPhase'>> \in AllowedPairs
     /\ PhaseOf(state) = "complete" => PhaseOf(state') = "complete"
     /\ DiskPhase = "complete" => DiskPhase' = "complete"]_vars

\* A checkpoint operation succeeded after the session reached complete.
C2_Witness ==
  /\ PhaseOf(state) = "complete"
  /\ DiskPhase = "complete"
  /\ op.name = "complete_checkpoint"
  /\ result = Ok

\* C3: a call that raises InvalidPhaseTransitionError or ValueError never
\* enters save(): both files are unchanged, no callback is invoked, and
\* current_phase, phase_history and build_progress read as before.
C3_FailedCallChangesNothing ==
  [][result'.kind \in {"InvalidPhaseTransitionError", "ValueError"} =>
       /\ pc = "idle"
       /\ pc' = "idle"
       /\ fs' = fs
       /\ callback_log' = callback_log
       /\ Mutable(state') = Mutable(state)]_vars

\* A duplicate complete_checkpoint was rejected.
C3_Witness ==
  /\ op.name = "complete_checkpoint"
  /\ result.kind = "ValueError"
  /\ mem # None
  /\ contains(mem[1].build_progress.checkpoints_completed, op.n)

\* C4 as stated: every accepted transition sets current_phase = to and sets
\* both from_completed_at and to_started_at to the instant of the call.
C4_Original ==
  [][\A to \in Phase :
       (transition_to_phase(to) /\ pc' = "save") =>
          LET from == state.st[1].current_phase
              h == mem'[1].phase_history
          IN /\ mem'[1].current_phase = to
             /\ HistGet(h, from \o "_completed_at") = Some(clock)
             /\ HistGet(h, to \o "_started_at") = Some(clock)]_vars

\* C4 (amended): every accepted transition sets current_phase = to and
\* from_completed_at to the instant of the call; when to is not complete it
\* sets to_started_at to that same instant, and when to is complete it
\* writes no other phase_history field.
C4_PairedTimestamps ==
  [][\A to \in Phase :
       (transition_to_phase(to) /\ pc' = "save") =>
          LET from == state.st[1].current_phase
              old == state.st[1].phase_history
              h == mem'[1].phase_history
          IN /\ mem'[1].current_phase = to
             /\ h[from \o "_completed_at"] = Some(clock)
             /\ to # "complete" =>
                  /\ h[to \o "_started_at"] = Some(clock)
                  /\ \A f \in HistFields \ {from \o "_completed_at", to \o "_started_at"} :
                       h[f] = old[f]
             /\ to = "complete" =>
                  \A f \in HistFields \ {from \o "_completed_at"} : h[f] = old[f]]_vars

\* build -> docs was saved at instant 1 with both timestamps equal to 1.
C4_Witness ==
  /\ op = Call("transition_to_phase", "docs", 0)
  /\ result = Ok
  /\ mem[1].current_phase = "docs"
  /\ mem[1].phase_history["build_completed_at"] = Some(1)
  /\ mem[1].phase_history["docs_started_at"] = Some(1)

\* C5: state.json never holds a partially written file; it changes only in
\* the rename step, and then to the complete serialisation of the new state;
\* a process death or I/O failure inside save() leaves it as it was.
C5_AtomicSave ==
  [][/\ fs'[state_file].kind # "truncated"
     /\ fs'[state_file] # fs[state_file] =>
          /\ pc = "rename"
          /\ fs'[state_file] = JsonFile(model_dump(mem[1]))
     /\ faults' # faults => fs'[state_file] = fs[state_file]]_vars

\* The process died in the middle of the temp-file write: the temp file is
\* partial and state.json is still a complete manifest.
C5_Witness ==
  /\ result.kind = "killed"
  /\ fs[temp_file].kind = "truncated"
  /\ fs[state_file].kind = "json"

C8_Original ==
  [][load =>
       /\ fs[state_file].kind = "absent" => result'.kind = "SessionNotFoundError"
       /\ fs[state_file].kind \in {"garbage", "truncated", "badschema"} =>
            result'.kind = "StateValidationError"
       /\ result'.kind # "ok" => (mem' = mem /\ fs' = fs)]_vars

\* C9: checkpoints_completed (in memory and in state.json) is strictly
\* increasing with all elements in [1, checkpoints_total], and
\* complete_checkpoint of an id already in the list raises ValueError.
C9_CompletedSortedUnique ==
  [][/\ mem' # None => BuildProgressOk(mem'[1].build_progress)
     /\ fs'[state_file].kind = "json" =>
          BuildProgressOk(fs'[state_file].doc.build_progress)
     /\ \A c \in CheckpointArgs :
          (/\ complete_checkpoint(c)
           /\ state.res.kind = "ok"
           /\ contains(state.st[1].build_progress.checkpoints_completed, c)) =>
             result'.kind = "ValueError"]_vars

\* Checkpoint 1 was completed after checkpoint 2.
C9_Witness ==
  /\ op = Call("complete_checkpoint", "", 1)
  /\ result = Ok
  /\ mem[1].build_progress.checkpoints_completed = <<1, 2>>

\* C10 as stated: current_checkpoint is null exactly when build progress is
\* uninitialized or every checkpoint 1..checkpoints_total is completed.
C10_Original ==
  mem # None =>
    LET bp == mem[1].build_progress IN
      (bp.current_checkpoint = None) <=>
        (bp.checkpoints_total = None \/ AllDone(bp))

Elements(l) == {l[i] : i \in DOMAIN l}

C12_InitBuildProgress ==
  [][/\ \A n \in TotalArgs :
          init_build_progress(n) =>
             IF n < 1
               THEN /\ result' = Result("ValueError")
                    /\ pc' = "idle"
                    /\ mem' = mem
                    /\ fs' = fs
               ELSE state.res.kind = "ok" =>
                    /\ pc' = "save"
                    /\ mem'[1].build_progress =
                         [checkpoints_total |-> Some(n),
                          checkpoints_completed |-> <<>>,
                          current_checkpoint |-> Some(1)]
     /\ (op.name = "init_build_progress" /\ pc # "idle" /\ pc' = "idle") =>
          /\ result' = Ok
          /\ fs'[state_file].kind = "json"
          /\ fs'[state_file].doc.build_progress =
               [checkpoints_total |-> Some(op.n),
                checkpoints_completed |-> <<>>,
                current_checkpoint |-> Some(1)]]_vars

\* A re-initialisation is being saved while state.json still holds the
\* earlier progress with completed checkpoints.
C12_Witness ==
  /\ op = Call("init_build_progress", "", 1)
  /\ pc = "write"
  /\ mem[1].build_progress.checkpoints_completed = <<>>
  /\ mem[1].build_progress.current_checkpoint = Some(1)
  /\ fs[state_file].doc.build_progress.checkpoints_completed = <<1, 2>>

\* C13: start_checkpoint(id) raises ValueError when build progress is
\* uninitialized or id is outside [1, checkpoints_total]; otherwise it sets
\* current_checkpoint = id and leaves checkpoints_total and
\* checkpoints_completed unchanged.
C13_StartCheckpoint ==
  [][\A c \in CheckpointArgs :
       (start_checkpoint(c) /\ state.res.kind = "ok") =>
          LET old == state.st[1].build_progress IN
            IF old.checkpoints_total = None
                 \/ c < 1 \/ c > old.checkpoints_total[1]
              THEN /\ result' = Result("ValueError")
                   /\ pc' = "idle"
              ELSE /\ pc' = "save"
                   /\ mem'[1].build_progress =
                        [old EXCEPT !.current_checkpoint = Some(c)]]_vars

\* Checkpoint 2 was started again although it is already completed.
C13_Witness ==
  /\ op = Call("start_checkpoint", "", 2)
  /\ result = Ok
  /\ mem[1].build_progress.current_checkpoint = Some(2)
  /\ mem[1].build_progress.checkpoints_completed = <<2>>

SansUpdatedAt(s) == [s EXCEPT !.updated_at = 0]

IsPrefix(a, b) == Len(a) <= Len(b) /\ SubSeq(b, 1, Len(a)) = a

\* The commits in state.json, as serialised.
DiskCommits == IF fs[state_file].kind = "json" THEN fs[state_file].doc.commits ELSE <<>>

\* The commits the manager answers with: its loaded state, or state.json when
\* nothing is loaded yet.
RecordedCommits ==
  IF state.res.kind = "ok" THEN state.st[1].commits ELSE <<>>

\* C15: add_commit appends exactly one entry at the end of commits, also for
\* a sha that is already recorded, and no operation removes, reorders or
\* alters the commits recorded before it, in memory or in state.json.
C15_CommitsAppendOnly ==
  [][/\ \A a \in CommitArgs :
          (add_commit(a[1], "Test commit", a[2]) /\ pc' = "save") =>
             mem'[1].commits =
               Append(RecordedCommits, Commit(a[1], "Test commit", a[2], clock))
     /\ IsPrefix(RecordedCommits, RecordedCommits')
     /\ IsPrefix(DiskCommits, DiskCommits')]_vars

\* The same sha has been recorded twice and both entries are on disk.
C15_Witness ==
  /\ pc = "idle"
  /\ result = Ok
  /\ Len(RecordedCommits) = 2
  /\ RecordedCommits[1].sha = "abc1234"
  /\ RecordedCommits[2].sha = "abc1234"
  /\ Len(DiskCommits) = 2
  /\ DiskCommits[1].sha = "abc1234"
  /\ DiskCommits[2].sha = "abc1234"

Executing(tk) == {t \in TaskIds : tk[t].st = "running"}
Granted(tk) == {t \in TaskIds : tk[t].st = "granted"}

\* C16: with limit N at most N task bodies execute at any time, in every
\* interleaving of submissions, task steps, completions and shutdown; a body
\* starts only while fewer than N are executing, and a task that reaches
\* the semaphore while N are executing queues.
C16_AtMostNBodies ==
  [][/\ Cardinality(Executing(task')) <= max_concurrent
     /\ \A t \in TaskIds :
          (task[t].st # "running" /\ task'[t].st = "running") =>
             Cardinality(Executing(task)) < max_concurrent
     /\ \A t \in TaskIds :
          (acquire(t) /\ Cardinality(Executing(task)) >= max_concurrent) =>
             task'[t].st = "waiting"]_vars

\* Three tasks under limit 2: the third queued and runs now that the first
\* is done.
C16_Witness ==
  /\ task[1].st = "done"
  /\ task[2].st = "running"
  /\ task[3].st = "running"
  /\ task[3].queued

\* C17: while the pool is shutting down (from the call of shutdown() on,
\* also while shutdown() is still waiting) or when no event loop is running,
\* submit() only closes the coroutine and returns None: nothing is tracked,
\* nothing else changes, and the coroutine never takes a step afterwards.
C17_RejectedSubmit ==
  [][/\ \A has_loop \in BOOLEAN :
          (submit(has_loop) /\ (shutting_down \/ ~has_loop)) =>
             /\ \E t \in TaskIds :
                  /\ task[t].st = "new"
                  /\ task' = [task EXCEPT ![t].st = "rejected"]
             /\ tasks' = tasks
             /\ UNCHANGED <<manager_vars, shutting_down, semaphore, shutdown_pc, pending>>
     /\ \A t \in TaskIds : task[t].st = "rejected" => task'[t] = task[t]
     /\ shutdown_pc # "idle" => shutting_down
     /\ shutting_down => shutting_down']_vars

\* shutdown() is still waiting for a running task, and a coroutine submitted
\* meanwhile has been rejected.
C17_Witness ==
  /\ shutdown_pc = "wait"
  /\ \E t, u \in TaskIds :
       /\ task[t].st = "running"
       /\ t \in pending
       /\ task[u].st = "rejected"
       /\ ~task[u].ran

Permits(sem, tk) ==
  (IF sem = None THEN max_concurrent ELSE sem[1].value) + Cardinality(Granted(tk))

\* C18: when a body raises, its task ends as done with result None, its
\* permit goes back (to the free permits or to the first queued task), every
\* other task is as it was or has just been given that permit, the tracked
\* set, the flag and the manager are untouched, and a later submit is
\* accepted; no task ever ends with an exception.
C18_BodyExceptionCaught ==
  [][/\ \A t \in TaskIds :
          finish(t, TRUE) =>
             /\ task'[t].st = "done"
             /\ task'[t].res = "None"
             /\ Permits(semaphore', task') = Permits(semaphore, task) + 1
             /\ \A u \in TaskIds \ {t} :
                  \/ task'[u] = task[u]
                  \/ /\ task[u].st = "waiting"
                     /\ task'[u] = [task[u] EXCEPT !.st = "granted"]
             /\ UNCHANGED <<manager_vars, shutting_down, tasks, shutdown_pc>>
     /\ \A t \in TaskIds : task'[t].res \in {"", "value", "None"}
     /\ (submit(TRUE) /\ ~shutting_down) =>
          \E t \in TaskIds : t \notin tasks /\ tasks' = tasks \cup {t} /\ task'[t].st = "scheduled"]_vars

\* The first task's body raised; the task that queued behind it runs.
C18_Witness ==
  /\ task[1].st = "done"
  /\ task[1].res = "None"
  /\ task[2].st = "running"
  /\ task[3].st = "running"
  /\ task[3].queued
  /\ ~shutting_down

\* C19: shutdown() sets the flag and cancels nothing when called; a task is
\* cancelled only when the timeout expires, and then exactly the tasks of the
\* snapshot that are not done are; when all are done in time it returns
\* without cancelling; after the grace wait it returns; with nothing tracked
\* it only sets the flag, so a repeated call changes nothing.
C19_Shutdown ==
  [][/\ shutdown_call =>
          /\ shutting_down'
          /\ task' = task
          /\ tasks = {} => UNCHANGED <<semaphore, tasks, shutdown_pc, pending>>
          /\ (tasks = {} /\ shutting_down) => UNCHANGED pool_vars
     /\ \A t \in TaskIds :
          (~task[t].must_cancel /\ task'[t].must_cancel) =>
             (shutdown_pc = "wait" /\ shutdown_pc' = "grace")
     /\ (shutdown_pc = "wait" /\ shutdown_pc' = "grace") =>
          \A t \in TaskIds :
            /\ task'[t].must_cancel <=> (t \in pending /\ ~finished(task, t))
            /\ task'[t].st = task[t].st
     /\ (shutdown_pc = "wait" /\ shutdown_pc' = "idle") =>
          /\ \A t \in pending : finished(task, t)
          /\ task' = task
     /\ shutdown_pc = "grace" => ENABLED shutdown_grace_end
     /\ (shutdown_pc = "grace" /\ shutdown_pc' = "idle") => task' = task]_vars

\* shutdown() has returned: one task completed uncancelled, another was
\* cancelled at the timeout.
C19_Witness ==
  /\ shutdown_pc = "idle"
  /\ shutting_down
  /\ \E t, u \in TaskIds :
       /\ task[t].st = "done"
       /\ task[t].res = "value"
       /\ task[u].st = "cancelled"

Scheduled == {t \in TaskIds : scheduled(task, t)}
AllCompleted == \A t \in Scheduled : finished(task, t)

\* C20 as stated: the tracked set holds scheduled tasks only,
\* active_count <= pending_count, and both counts are 0 once every scheduled
\* task has completed.
C20_Original ==
  /\ tasks \subseteq Scheduled
  /\ active_count <= pending_count
  /\ AllCompleted => (active_count = 0 /\ pending_count = 0)

\* C20, amended: the tracked set holds every unfinished scheduled task and
\* otherwise only finished ones whose done callback has not run yet; it grows
\* by the one task of an accepted submit and shrinks by a finished task when
\* its callback runs, which is possible as soon as the task has finished
\* (done, by exception, or cancelled); active_count <= pending_count;
\* active_count is 0 once every scheduled task has completed, and
\* pending_count is 0 once their callbacks have run as well.
C20_TrackedSet ==
  [][/\ {t \in Scheduled : ~finished(task, t)} \subseteq tasks
     /\ tasks \subseteq Scheduled
     /\ (submit(TRUE) /\ ~shutting_down) =>
          \E t \in TaskIds : t \notin tasks /\ tasks' = tasks \cup {t}
     /\ tasks' # tasks =>
          \/ \E t \in TaskIds :
               /\ task[t].st = "new" /\ task'[t].st = "scheduled"
               /\ tasks' = tasks \cup {t}
          \/ \E t \in tasks : finished(task, t) /\ tasks' = tasks \ {t} /\ task' = task
     /\ \A t \in tasks : finished(task, t) => ENABLED discard(t)
     /\ pending_count = Cardinality(tasks)
     /\ active_count = pending_count - Cardinality({t \in tasks : finished(task, t)})
     /\ active_count <= pending_count
     /\ AllCompleted => active_count = 0
     /\ (AllCompleted /\ \A t \in Scheduled : t \notin tasks) => pending_count = 0]_vars

\* Every scheduled task has completed (one by a raised exception, one by
\* cancellation); the cancelled one is still tracked.
C20_Witness ==
  /\ task[1].st = "done" /\ task[1].res = "None" /\ 1 \notin tasks
  /\ task[2].st = "cancelled" /\ 2 \in tasks
  /\ AllCompleted
  /\ active_count = 0
  /\ pending_count = 1

\* C21: reset() clears the shutting-down flag and the tracked set (and drops
\* the semaphore) without touching any task; from then on a submit is
\* accepted, its task gets a permit of the new semaphore at once while fewer
\* than N entered it, and a task that runs can always finish.
C21_ResetAllowsReuse ==
  [][/\ reset =>
          /\ ~shutting_down'
          /\ tasks' = {}
          /\ semaphore' = None
          /\ task' = task
     /\ (submit(TRUE) /\ ~shutting_down) =>
          \E t \in TaskIds :
            /\ task[t].st = "new" /\ task'[t].st = "scheduled"
            /\ tasks' = tasks \cup {t}
     /\ \A t \in TaskIds :
          (acquire(t) /\ semaphore = None) => task'[t].st = "running"
     /\ \A t \in TaskIds :
          (task[t].st = "running" /\ ~task[t].must_cancel) => ENABLED finish(t, FALSE)]_vars

\* After shutdown() a submit was rejected; after reset() another one was
\* accepted (it is tracked, and reset() had emptied the set) and its work has
\* run to completion.
C21_Witness ==
  /\ resets = 1
  /\ ~shutting_down
  /\ \E t, u \in TaskIds :
       /\ task[u].st = "rejected"
       /\ u < t
       /\ task[t].st = "done"
       /\ task[t].res = "value"
       /\ t \in tasks

\* C22: whatever sync_one and sync_all calls run and however they interleave,
\* the sessions table holds at most one row per session_slug; a row, once
\* committed, keeps its identity and its slug; and a sync_one call that finds a
\* row for its slug takes the update path on that very row and returns it
\* under the same identity.
C22_OneRecordPerSlug ==
  [][/\ \A r, q \in db' : r.session_slug = q.session_slug => r.id = q.id
     /\ \A r \in db : \E q \in db' : q.id = r.id /\ q.session_slug = r.session_slug
     /\ \A t \in SyncIds :
          (lookup(t) /\ ~sync[t].poisoned /\ get_session_by_slug(t, sync[t].slug) # {}) =>
            /\ sync'[t].path = "update"
            /\ \E r \in get_session_by_slug(t, sync[t].slug) : sync'[t].existing = Some(r.id)
     /\ \A t \in SyncIds :
          update(t) => /\ sync'[t].ret[1].id = sync[t].existing[1]
                       /\ sync'[t].ret[1].session_slug = sync[t].slug]_vars

\* Two tasks found no row for the slug and both went to create it: one row is
\* committed, the other task's insert was refused.
C22_Witness ==
  /\ Cardinality(db) = 1
  /\ \E t, u \in SyncIds :
       /\ sync[t].pc = "done" /\ sync[t].res = "ok"
       /\ sync[u].pc = "done" /\ sync[u].res = "IntegrityError"

\* The fields of a row that mirror the manifest, and what the manifest makes
\* of them: the row a create from that manifest alone would hold.
MappedFields ==
  {"current_phase", "status", "checkpoints_total", "checkpoints_completed",
   "checkpoints_completed_list", "current_checkpoint", "git_branch", "git_worktree",
   "git_base_branch", "phase_history", "commits_list", "artifacts"}
Derived(parsed) == create_session(map_state_to_session_create(parsed, 0), 0, 0)

\* C23 as stated: when sync_one returns, on the create and on the update
\* path, every mapped field of the returned row equals the value derived from
\* the manifest the call read, null values included, whatever the row held
\* before.
C23_Original ==
  \A t \in SyncIds :
    sync[t].ret # None =>
      \A k \in MappedFields : sync[t].ret[1][k] = Derived(sync[t].state[1])[k]

\* The artifact files the call looked at, and the update a second call would
\* make of the same manifest and the same files.
FlagsRead(s) == [spec_exists |-> s.data[1].spec_exists[1], plan_exists |-> s.data[1].plan_exists[1]]
Again(s) ==
  map_state_to_session_update(
    s.state[1], Dir(JsonFile(s.state[1]), FlagsRead(s).spec_exists, FlagsRead(s).plan_exists))
SansUpdated(r) == [k \in DOMAIN r \ {"updated_at"} |-> r[k]]

\* C24 as stated: a second sync_one over the same manifest and the same files
\* leaves the row the first one returned as it is, identity and every field.
C24_Original ==
  \A t \in SyncIds :
    sync[t].ret # None => update_session(sync[t].ret[1], Again(sync[t]), clock) = sync[t].ret[1]

\* C24: a second sync_one over the same manifest and the same files leaves
\* the row the first one returned, created or updated, with the same identity
\* and the same value in every field but updated_at, which it sets to the
\* time of the second run.
C24_IdempotentUpsert ==
  \A t \in SyncIds :
    sync[t].ret # None =>
      LET second == update_session(sync[t].ret[1], Again(sync[t]), clock) IN
        /\ SansUpdated(second) = SansUpdated(sync[t].ret[1])
        /\ second.updated_at = clock

\* A call has returned the row it updated from a manifest with commits, and
\* the clock has moved on since.
C24_Witness ==
  \E t \in SyncIds :
    /\ sync[t].ret # None
    /\ sync[t].path = "update"
    /\ sync[t].ret[1].commits_list # <<>>
    /\ sync[t].ret[1].updated_at < clock

\* Nothing is in flight, every task started for the session has read a
\* manifest and ended without error, and one of them has read the manifest
\* that is on disk now.
Settled(n) ==
  /\ InFlight = {}
  /\ disk[n].state_json.kind = "json"
  /\ \A t \in SyncIds : sync[t].pc = "done" => sync[t].res = "ok"
  /\ \E t \in SyncIds : sync[t].pc = "done" /\ sync[t].state = Some(disk[n].state_json.doc)

\* C25 as stated: once the saves of a manifest have stopped and every
\* reconciliation task started for its slug has run to completion without
\* error, however the tasks interleaved with each other and with the saves,
\* the slug's row mirrors the manifest that is on disk.
C25_Original ==
  \A n \in DOMAIN disk :
    Settled(n) =>
      \E r \in db :
        /\ r.session_slug = n
        /\ \A k \in MappedFields : r[k] = Derived(disk[n].state_json.doc)[k]

\* The rows of a slug, and the row a complete sync_one of the directory as it
\* is leaves for it: the manifest's values and the files' flags.
RowsOf(rows, n) == {r \in rows : r.session_slug = n}
FullyWritten(r) ==
  LET dir == disk[r.session_slug] IN
    /\ dir.state_json.kind = "json"
    /\ SansUpdated(r) =
         SansUpdated([create_session(map_state_to_session_create(dir.state_json.doc,
                                                                 r.session_slug), r.id, 0)
                        EXCEPT !.spec_exists = exists(dir).spec_exists,
                               !.plan_exists = exists(dir).plan_exists])

\* C26 as stated: whatever fails inside sync_one, and whether the task's own
\* boundary or sync_all catches it, the sessions table afterwards holds for
\* each slug what it held before or a fully written row, never a row stopped
\* between the insert and the artifact-flag update.
C26_Original ==
  [][\A n \in DOMAIN disk :
       \/ RowsOf(db', n) = RowsOf(db, n)
       \/ \A r \in RowsOf(db', n) : FullyWritten(r)]_vars

\* C27: a sync_one call raises SessionNotFoundOnFilesystem when state.json
\* is missing and InvalidStateJson when it does not parse, and in both cases
\* ends before it has read or written the sessions table: committed rows,
\* flushed rows and identities handed out are what they were. A manifest
\* that parses takes the call on to the lookup.
C27_ManifestErrors ==
  [][\A t \in SyncIds :
       sync_session_async(t, 1) =>
         /\ disk[1].state_json.kind = "absent" => sync'[t].res = "SessionNotFoundOnFilesystem"
         /\ disk[1].state_json.kind = "garbage" => sync'[t].res = "InvalidStateJson"
         /\ disk[1].state_json.kind = "json" => sync'[t].pc = "lookup" /\ sync'[t].res = ""
         /\ sync'[t].res \in {"SessionNotFoundOnFilesystem", "InvalidStateJson"} =>
              /\ ~sync'[t].touched
              /\ sync'[t].rows = {}
              /\ db' = db
              /\ uuids' = uuids]_vars

\* A session with a row in the table and a state.json that no longer parses
\* has been reconciled again: the call raised and the row is as it was.
C27_Witness ==
  /\ db = {indexed_before}
  /\ \E t \in SyncIds : sync[t].pc = "done" /\ sync[t].res = "InvalidStateJson"

\* C28: on the update path the flags a sync_one call is about to write are
\* those of the files present when it looks, right after the lookup; on the
\* create path it looks right after the insert; and the row the call returns
\* carries exactly the flags it read, whatever the manifest's artifacts entry
\* says and whatever the row held before.
C28_ArtifactFlags ==
  [][\A t \in SyncIds :
       /\ ((lookup(t) /\ sync'[t].pc = "update") \/ (create(t) /\ sync'[t].pc = "flags")) =>
            /\ sync'[t].data[1].spec_exists = Some(disk[sync[t].slug].spec_md)
            /\ sync'[t].data[1].plan_exists = Some(disk[sync[t].slug].plan_json)
       /\ (update(t) \/ flags(t)) =>
            /\ sync'[t].ret[1].spec_exists = sync[t].data[1].spec_exists[1]
            /\ sync'[t].ret[1].plan_exists = sync[t].data[1].plan_exists[1]]_vars

\* spec.md was there at the last sync and has been deleted since: the call
\* returns the row with spec_exists false while the committed row still says
\* true, and the manifest goes on declaring the artifact.
C28_Witness ==
  \E t \in SyncIds :
    /\ sync[t].ret # None
    /\ sync[t].path = "update"
    /\ ~sync[t].ret[1].spec_exists
    /\ ~disk[sync[t].slug].spec_md
    /\ "spec" \in DOMAIN sync[t].ret[1].artifacts
    /\ \E r \in db : r.id = sync[t].ret[1].id /\ r.spec_exists

\* The generation-1 manifest paired with each generation-2 manifest that
\* says the same, and the four fields the two must agree on.
Counterpart(parsed) ==
  IF parsed = sample_state_v1 THEN {sample_state_in_build, sample_state_no_history}
  ELSE IF parsed \in {sample_state_in_build, sample_state_no_history} THEN {sample_state_v1}
  ELSE {}
Progress(r) ==
  [current_phase |-> r.current_phase, checkpoints_total |-> r.checkpoints_total,
   checkpoints_completed |-> r.checkpoints_completed,
   current_checkpoint |-> r.current_checkpoint]

Visited(t) == 1..(Len(disk) - Len(sync[t].todo))
Subdirs == {n \in 1..Len(disk) : disk[n].is_dir}
Listed(entries, n) == {i \in 1..Len(entries) : entries[i].session_slug = n}

\* C30: while a batch is between two entries and once it is over, every
\* subdirectory it has been through is listed exactly once, in synced or in
\* failed, and a plain file in neither; a subdirectory without a manifest
\* fails with "state.json not found", one with bad JSON with "invalid
\* state.json", any other error with "unexpected error"; a batch never ends
\* without its summary, and the summary's total is len(synced) + len(failed)
\* and the number of subdirectories of agents/sessions/.
C30_SyncAllSummary ==
  \A t \in SyncIds : sync[t].kind = "all" =>
    /\ sync[t].pc \in {"loop", "commit", "done"} =>
         \A n \in (IF sync[t].pc = "loop" THEN Visited(t) ELSE 1..Len(disk)) :
           LET s == Cardinality(Listed(sync[t].synced, n))
               f == Cardinality(Listed(sync[t].failed, n))
           IN /\ s + f = IF disk[n].is_dir THEN 1 ELSE 0
              /\ \A i \in Listed(sync[t].failed, n) :
                   sync[t].failed[i].error =
                     CASE disk[n].state_json.kind = "absent" -> "state.json not found"
                       [] disk[n].state_json.kind = "garbage" -> "invalid state.json"
                       [] OTHER -> "unexpected error"
              /\ disk[n].state_json.kind # "json" => s = 0
    /\ sync[t].pc \in {"commit", "done"} =>
         /\ sync[t].total # None
         /\ sync[t].total[1] = Len(sync[t].synced) + Len(sync[t].failed)
         /\ sync[t].total[1] = Cardinality(Subdirs)

\* A batch is over whose first subdirectory failed on an error of the store
\* and whose second was reconciled all the same.
C30_Witness ==
  \E t \in SyncIds :
    /\ sync[t].kind = "all"
    /\ sync[t].pc = "done"
    /\ sync[t].total = Some(2)
    /\ \E i \in DOMAIN sync[t].failed, j \in DOMAIN sync[t].synced :
         /\ sync[t].failed[i].error = "unexpected error"
         /\ sync[t].failed[i].session_slug < sync[t].synced[j].session_slug

\* The order of the phases along the two paths, and what a manifest's
\* phase_history must look like given its current_phase.
Rank(p) ==
  CASE p = "spec" -> 1 [] p = "plan" -> 2 [] p = "build" -> 3 [] p = "docs" -> 4
    [] OTHER -> 5
Paired(h, p) ==
  /\ h[p \o "_started_at"] # None
  /\ h[p \o "_completed_at"] # None
  /\ h[p \o "_started_at"][1] <= h[p \o "_completed_at"][1]
HistoryOk(s) ==
  LET h == s.phase_history
      cur == s.current_phase
  IN /\ \A p \in {"spec", "plan", "build"} : Rank(p) < Rank(cur) => Paired(h, p)
     /\ cur = "complete" =>
          \/ Paired(h, "docs")
          \/ h["docs_started_at"] = None /\ h["docs_completed_at"] = None
     /\ cur # "complete" => h[cur \o "_completed_at"] = None
StartedFields == {f \in HistFields : \E p \in Phase : f = p \o "_started_at"}

\* C38: from the fresh manifest, in memory and on disk: every phase already
\* left has started_at and completed_at set, in that order; the current
\* phase's completed_at is null; an accepted transition to complete changes no
\* started_at field; after build -> complete both docs timestamps are null,
\* and once the phase is complete the history does not change any more.
C38_HistoryShape ==
  [][/\ mem # None => HistoryOk(mem[1])
     /\ mem' # None => HistoryOk(mem'[1])
     /\ fs'[state_file].kind = "json" => HistoryOk(model_validate(fs'[state_file].doc))
     /\ (transition_to_phase("complete") /\ pc' = "save") =>
          /\ \A f \in StartedFields : mem'[1].phase_history[f] = state.st[1].phase_history[f]
          /\ state.st[1].current_phase = "build" =>
                /\ mem'[1].phase_history["docs_started_at"] = None
                /\ mem'[1].phase_history["docs_completed_at"] = None
     /\ (mem # None /\ mem' # None /\ mem[1].current_phase = "complete") =>
          mem'[1].phase_history = mem[1].phase_history]_vars

\* build -> complete was saved at instant 1: build is paired, docs is empty.
C38_Witness ==
  /\ op = Call("transition_to_phase", "complete", 0)
  /\ result = Ok
  /\ fs[state_file].kind = "json"
  /\ fs[state_file].doc.current_phase = "complete"
  /\ mem[1].phase_history["build_completed_at"] = Some(1)
  /\ mem[1].phase_history["docs_started_at"] = None
  /\ mem[1].phase_history["docs_completed_at"] = None

\* C33: an accepted set_status, set_git_branch or set_git_worktree leaves the
\* in-memory state as it was except for its one field, and the save that
\* follows changes updated_at only; a checkpoint operation is accepted or
\* refused on its argument and build_progress alone, whatever the phase, and
\* an accepted one changes build_progress only; a transition is accepted on
\* the pair of phases alone, whatever build_progress holds, and changes
\* current_phase and phase_history only.
C33_Frames ==
  [][LET old == state.st[1]
         new == mem'[1]
         total == old.build_progress.checkpoints_total
         inrange(c) == total # None /\ 1 <= c /\ c <= total[1]
     IN /\ \A st \in StatusArgs : (set_status(st) /\ pc' = "save") =>
              new = [old EXCEPT !.status = st]
        /\ \A b \in BranchArgs : (set_git_branch(b) /\ pc' = "save") =>
              new = [old EXCEPT !.git.branch = Some(b)]
        /\ \A w \in WorktreeArgs : (set_git_worktree(w) /\ pc' = "save") =>
              new = [old EXCEPT !.git.worktree = w]
        /\ save_updated_at => mem'[1] = [mem[1] EXCEPT !.updated_at = clock]
        /\ (save_write \/ save_rename) => mem' = mem
        /\ \A n \in TotalArgs : init_build_progress(n) =>
              /\ pc' = "save" <=> n >= 1
              /\ pc' = "save" => new = [old EXCEPT !.build_progress = new.build_progress]
        /\ \A c \in CheckpointArgs : start_checkpoint(c) =>
              /\ pc' = "save" <=> inrange(c)
              /\ pc' = "save" => new = [old EXCEPT !.build_progress = new.build_progress]
        /\ \A c \in CheckpointArgs : complete_checkpoint(c) =>
              /\ pc' = "save" <=>
                    inrange(c) /\ ~contains(old.build_progress.checkpoints_completed, c)
              /\ pc' = "save" => new = [old EXCEPT !.build_progress = new.build_progress]
        /\ \A p \in Phase : transition_to_phase(p) =>
              /\ pc' = "save" <=> <<old.current_phase, p>> \in AllowedPairs
              /\ pc' = "save" =>
                    new = [old EXCEPT !.current_phase = p,
                                      !.phase_history = new.phase_history]]_vars

\* build -> complete was saved with a checkpoint still open, the branch and
\* the worktree set and the status paused; then a checkpoint was completed in
\* phase complete.
C33_Witness ==
  /\ op = Call("complete_checkpoint", "", 1)
  /\ result = Ok
  /\ fs[state_file].doc.current_phase = "complete"
  /\ fs[state_file].doc.phase_history["docs_started_at"] = None
  /\ fs[state_file].doc.status = "paused"
  /\ fs[state_file].doc.git.branch = Some("feature/new-feature")
  /\ fs[state_file].doc.git.worktree = Some("/path/to/worktree")
  /\ fs[state_file].doc.build_progress.checkpoints_total = Some(MaxTotal)
  /\ fs[state_file].doc.build_progress.checkpoints_completed = <<1>>

\* C35 as stated: a mutation or save() called on a manager right after its
\* construction, before any load(), raises RuntimeError, installs no state
\* and leaves both files alone.
C35_Original ==
  [][(/\ op = Call("__init__", "", 0)
      /\ mem = None
      /\ \/ save
         \/ \E p \in Phase : transition_to_phase(p)
         \/ \E n \in TotalArgs : n >= 1 /\ init_build_progress(n)
         \/ \E c \in CheckpointArgs : start_checkpoint(c)
         \/ \E c \in CheckpointArgs : complete_checkpoint(c))
       => /\ result'.kind = "RuntimeError"
          /\ mem' = None
          /\ pc' = "idle"
          /\ fs' = fs]_vars

\* The fields of a manifest that mutations set.
Persisted(s) ==
  [current_phase |-> s.current_phase, phase_history |-> s.phase_history,
   build_progress |-> s.build_progress, commits |-> s.commits,
   status |-> s.status, git |-> s.git]

\* C37 as stated: when a call on the manager has raised, the state the
\* manager holds in memory, if any, has the current_phase, phase_history,
\* build_progress, commits, status and git of the manifest in state.json.
C37_Original ==
  [][(/\ pc' = "idle"
      /\ result' # result
      /\ result'.kind \notin {"ok", "running", "killed"}
      /\ mem' # None)
       => /\ fs'[state_file].kind = "json"
          /\ Persisted(mem'[1]) = Persisted(model_validate(fs'[state_file].doc))]_vars

\* C34 as stated: each of the two managers' saves succeeds, and a rename
\* leaves in state.json the complete manifest of the manager that made it.
C34_Original ==
  [][/\ save_rename =>
          /\ result'.kind = "ok"
          /\ fs'[state_file] = JsonFile(model_dump(mem[1]))
     /\ peer_save_rename =>
          /\ peer'.result.kind = "ok"
          /\ fs'[state_file] = JsonFile(model_dump(peer.mem[1]))]_vars

\* The free permits of the pool's semaphore.
Free == IF semaphore = None THEN max_concurrent ELSE semaphore[1].value

\* C39 as stated: the number of executing bodies plus the free permits is N
\* in every state.
C39_Original ==
  Cardinality(Executing(task)) + Free = max_concurrent

\* C39 (amended): executing bodies, tasks that release() has handed a permit
\* and that have not resumed yet, and free permits add up to N in every
\* state; a task cancelled before it entered its body ends cancelled without
\* having run and without changing that sum, and stays as it ended; a task
\* that ends from inside its body gives back exactly one permit.
C39_PermitsConserved ==
  [][/\ Cardinality(Executing(task)) + Permits(semaphore, task) = max_concurrent
     /\ Cardinality(Executing(task')) + Permits(semaphore', task') = max_concurrent
     /\ \A t \in TaskIds :
          /\ (throw_cancelled(t, FALSE) /\ task[t].st \in {"scheduled", "waiting", "granted"}) =>
               /\ task'[t].st = "cancelled"
               /\ ~task'[t].ran
               /\ Permits(semaphore', task') =
                    Permits(semaphore, task) + Cardinality(Executing(task)) -
                    Cardinality(Executing(task'))
               /\ semaphore' # None =>
                    \A i \in DOMAIN semaphore'[1].waiters : semaphore'[1].waiters[i] # t
          /\ finished(task, t) => task'[t] = task[t]
          /\ (task[t].st = "running" /\ finished(task', t)) =>
               /\ Permits(semaphore', task') = Permits(semaphore, task) + 1
               /\ Executing(task') = Executing(task) \ {t}]_vars

\* Under limit 2: one body was cancelled and gave its permit back, the other
\* still runs, and the task cancelled in the queue has not been given the
\* free permit.
C39_Witness ==
  /\ semaphore # None
  /\ semaphore[1].value = 1
  /\ \E t, u, w \in TaskIds :
       /\ task[t].st = "cancelled" /\ task[t].ran
       /\ task[u].st = "running"
       /\ task[w].st = "waiting" /\ task[w].must_cancel /\ ~task[w].ran

\* C40 as stated: when shutdown() returns, every task of its snapshot has
\* ended; and, with reset() called after shutdown() has returned, at most N
\* bodies execute at any time, counting the tasks submitted before and after
\* the reset.
C40_Original ==
  [][/\ (shutdown_pc # "idle" /\ shutdown_pc' = "idle") =>
          \A t \in pending : finished(task, t)
     /\ Cardinality(Executing(task')) <= max_concurrent]_vars

\* C36: every task submit() has created is eventually done with its body
\* run to the end, unless shutdown cancels it first; in particular a task
\* queued for the semaphore is eventually handed a permit and runs.
C36_EveryTaskRuns ==
  \A t \in TaskIds :
    (task[t].st \in {"scheduled", "waiting", "granted", "running"}) ~>
      \/ task[t].st = "done" /\ task[t].ran
      \/ task[t].must_cancel
      \/ task[t].st = "cancelled"

\* Under limit 2 the first two bodies have run to their end and the third
\* task, which had to queue, is in its body; nothing was cancelled.
C36_Witness ==
  /\ task[1].st = "done" /\ task[1].ran
  /\ task[2].st = "done" /\ task[2].ran
  /\ task[3].st = "running" /\ task[3].queued
  /\ ~shutting_down
  /\ semaphore[1].value = max_concurrent - 1

====
